---- MODULE Spec2Model ----
(***************************************************************************)
(* Model of the geoportal-app core: the auction-record filter engine       *)
(* (app/filter_logic.py), the field normalizers of the PDF parser          *)
(* (app/pdf_parser.py) and the statistics aggregator.                      *)
(*                                                                         *)
(* Conventions of the model                                                *)
(*   - a Python str is a sequence of one-character strings; the Polish     *)
(*     letters are written by name ("zdot" is z with dot above, "ZDOT" its *)
(*     capital, "lstroke", "nacute", "eogonek", "oacute", "sacute");       *)
(*   - an Optional value is <<>> (None, or a key missing from the dict) or *)
(*     <<v>>;                                                              *)
(*   - areas are in hundredths of a hectare (0.08 ha is 8), prices in PLN; *)
(*   - a datetime is [ordinal |-> proleptic Gregorian day number,          *)
(*     second |-> second of the day].                                      *)
(***************************************************************************)
EXTENDS Integers, Sequences, FiniteSets, TLC

VARIABLES
    op,                 \* the operation that ran last ("none" after start-up)
    records,            \* the record list handed to the operation
    filters_arg,        \* the filters dict as the caller built it
    filters,            \* the same dict after the call (filter_records updates it in place)
    current_date,       \* what datetime.now() returned inside the call
    order,              \* the order in which the independent filters were applied
    filtered_records,   \* the list the operation returned
    text,               \* the text handed to a field normalizer
    attributes,         \* first component returned by extract_attributes_and_discount
    discount,           \* second component returned by extract_attributes_and_discount
    stats,              \* the dict returned by calculate_stats
    result,             \* what a normalizer, a parser or the record builder returned
    default,            \* the default handed to safe_float
    table_data,         \* the raw rows handed to the batch processor
    processed_data,     \* the records the batch processor returned
    pdf,                \* the uploaded file, as the table extraction reads it
    raised,             \* the exception the operation raised ("" when it returned)
    requests            \* the local variables of each caller's upload_pdf request

vars == <<op, records, filters_arg, filters, current_date, order,
          filtered_records, text, attributes, discount, stats,
          result, default, table_data, processed_data, pdf, raised, requests>>

-----------------------------------------------------------------------------
(* Optional values *)

None == <<>>

Some(v) == <<v>>

IsNone(o) == o = <<>>

Val(o) == o[1]

-----------------------------------------------------------------------------
(* Python str operations, character by character *)

Digits == <<"0", "1", "2", "3", "4", "5", "6", "7", "8", "9">>

DigitChars == {Digits[i] : i \in 1..10}

DigitVal(c) == (CHOOSE i \in 1..10 : Digits[i] = c) - 1

LowerChars == <<"a", "b", "c", "d", "e", "f", "g", "h", "i", "j", "k", "l", "m",
                "n", "o", "p", "q", "r", "s", "t", "u", "v", "w", "x", "y", "z",
                "zdot", "lstroke", "nacute", "eogonek", "oacute", "sacute">>

UpperChars == <<"A", "B", "C", "D", "E", "F", "G", "H", "I", "J", "K", "L", "M",
                "N", "O", "P", "Q", "R", "S", "T", "U", "V", "W", "X", "Y", "Z",
                "ZDOT", "LSTROKE", "NACUTE", "EOGONEK", "OACUTE", "SACUTE">>

\* \s of the re module, and what str.strip() removes
SpaceChars == {" ", "\n", "\t", "\r"}

\* \w of the re module on str patterns: letters, digits and the underscore
WordChars == {LowerChars[i] : i \in 1..Len(LowerChars)}
             \cup {UpperChars[i] : i \in 1..Len(UpperChars)}
             \cup DigitChars \cup {"_"}

UpperSet == {UpperChars[i] : i \in 1..Len(UpperChars)}

LowerChar(c) ==
    IF c \in UpperSet
    THEN LowerChars[CHOOSE i \in 1..Len(UpperChars) : UpperChars[i] = c]
    ELSE c

RECURSIVE lower(_)
\* str.lower()
lower(s) == IF s = <<>> THEN <<>> ELSE <<LowerChar(s[1])>> \o lower(Tail(s))

\* t in s
Contains(s, t) == \E i \in 0..(Len(s) - Len(t)) : SubSeq(s, i + 1, i + Len(t)) = t

\* the last index of the run of characters of class C that starts at p (p - 1 if empty)
RECURSIVE RunEnd(_, _, _)
RunEnd(s, p, C) ==
    IF p > Len(s) \/ s[p] \notin C THEN p - 1 ELSE RunEnd(s, p + 1, C)

RECURSIVE RunStart(_, _, _)
\* the first index of the run of characters of class C that ends at p (p + 1 if empty)
RunStart(s, p, C) ==
    IF p < 1 \/ s[p] \notin C THEN p + 1 ELSE RunStart(s, p - 1, C)

\* str.strip()
strip(s) == SubSeq(s, RunEnd(s, 1, SpaceChars) + 1, RunStart(s, Len(s), SpaceChars) - 1)

RECURSIVE Find(_, _, _)
\* the first index from p on of a character of class C (Len(s) + 1 if none)
Find(s, p, C) ==
    IF p > Len(s) \/ s[p] \in C THEN p ELSE Find(s, p + 1, C)

RECURSIVE split(_, _)
\* str.split(c) for a one-character separator
split(s, c) ==
    LET i == Find(s, 1, {c})
    IN  IF i > Len(s)
        THEN <<s>>
        ELSE <<SubSeq(s, 1, i - 1)>> \o split(SubSeq(s, i + 1, Len(s)), c)

RECURSIVE DecimalPrefix(_, _)
\* the number the first n decimal digits of s denote
DecimalPrefix(s, n) ==
    IF n = 0 THEN 0 ELSE 10 * DecimalPrefix(s, n - 1) + DigitVal(s[n])

\* the number a string of decimal digits denotes
DecimalValue(s) == DecimalPrefix(s, Len(s))

\* the characters of an int() literal after its sign
IntChars == DigitChars \cup {"_"}

\* the literal int() is given, after stripping and without its sign
IntBody(s) ==
    LET t == strip(s)
    IN  IF t # <<>> /\ t[1] \in {"+", "-"} THEN Tail(t) ELSE t

\* whether int(s) succeeds: optional sign, digits, single underscores between digits
IntOk(s) ==
    LET b == IntBody(s)
    IN  /\ b # <<>>
        /\ \A i \in 1..Len(b) : b[i] \in IntChars
        /\ b[1] # "_" /\ b[Len(b)] # "_"
        /\ \A i \in 1..(Len(b) - 1) : ~(b[i] = "_" /\ b[i + 1] = "_")

\* int(s) when it succeeds
IntValue(s) ==
    LET t == strip(s)
        b == IF t[1] \in {"+", "-"} THEN Tail(t) ELSE t
        v == DecimalValue(SelectSeq(b, LAMBDA c : c # "_"))
    IN  IF t[1] = "-" THEN 0 - v ELSE v

-----------------------------------------------------------------------------
(* datetime *)

IsLeap(y) == (y % 4 = 0) /\ ((y % 100 # 0) \/ (y % 400 = 0))

DaysInMonth(y, m) ==
    IF m = 2 THEN (IF IsLeap(y) THEN 29 ELSE 28)
    ELSE IF m \in {4, 6, 9, 11} THEN 30 ELSE 31

\* datetime(y, m, d) taken to accept 31 days in every month
DateValid_any_month_of_31_days(y, m, d) ==
    /\ y >= 1 /\ y <= 9999
    /\ m >= 1 /\ m <= 12
    /\ d >= 1 /\ d <= 31

\* whether datetime(y, m, d) is accepted
DateValid(y, m, d) ==
    /\ y >= 1 /\ y <= 9999
    /\ m >= 1 /\ m <= 12
    /\ d >= 1 /\ d <= DaysInMonth(y, m)

RECURSIVE DaysBeforeMonth(_, _)
DaysBeforeMonth(y, m) ==
    IF m = 1 THEN 0 ELSE DaysBeforeMonth(y, m - 1) + DaysInMonth(y, m - 1)

\* date.toordinal(): 1 for 0001-01-01
Ordinal(y, m, d) ==
    LET p == y - 1
    IN  p * 365 + (p \div 4) - (p \div 100) + (p \div 400) + DaysBeforeMonth(y, m) + d

\* datetime(year, month, day): midnight of that day
Datetime(y, m, d) == [ordinal |-> Ordinal(y, m, d), second |-> 0]

\* dt + timedelta(days=n)
PlusDays(dt, n) == [ordinal |-> dt.ordinal + n, second |-> dt.second]

\* a <= b on datetimes
DatetimeLE(a, b) ==
    \/ a.ordinal < b.ordinal
    \/ (a.ordinal = b.ordinal /\ a.second <= b.second)

-----------------------------------------------------------------------------
(* filter_logic.py: the location decomposer and the date parser *)

Podkarpackie == <<"p", "o", "d", "k", "a", "r", "p", "a", "c", "k", "i", "e", "/">>

\* the token taken to end with its first run of word characters
TokenEnd_at_first_word(s, p) == RunEnd(s, p, WordChars)

RECURSIVE TokenEnd(_, _)
\* the end of the greedy \w+(?:[-\s]+\w+)* that starts at the word character p
TokenEnd(s, p) ==
    LET e == RunEnd(s, p, WordChars)
        q == RunEnd(s, e + 1, SpaceChars \cup {"-"})
    IN  IF q > e /\ q < Len(s) /\ s[q + 1] \in WordChars
        THEN TokenEnd(s, q + 1)
        ELSE e

\* whether the pattern podkarpackie/\s*(\w+...) matches at i
AnchorAt(s, i) ==
    /\ i + Len(Podkarpackie) - 1 <= Len(s)
    /\ s[i] = "p"
    /\ SubSeq(s, i, i + Len(Podkarpackie) - 1) = Podkarpackie
    /\ LET w == RunEnd(s, i + Len(Podkarpackie), SpaceChars) + 1
       IN  w <= Len(s) /\ s[w] \in WordChars

RECURSIVE AnchorSearch(_, _)
\* re.search: the leftmost position from i on where the pattern matches (0: none)
AnchorSearch(s, i) ==
    IF i > Len(s) THEN 0
    ELSE IF AnchorAt(s, i) THEN i
    ELSE AnchorSearch(s, i + 1)

\* get_powiat: the Optional county name of a location string
get_powiat(polozenie_str) ==
    IF IsNone(polozenie_str) \/ Val(polozenie_str) = <<>>
    THEN None
    ELSE LET s == Val(polozenie_str)
             i == AnchorSearch(s, 1)
             w == RunEnd(s, i + Len(Podkarpackie), SpaceChars) + 1
         IN  IF i = 0
             THEN None
             ELSE Some(strip(SubSeq(s, w, TokenEnd(s, w))))

\* parse_auction_date: the Optional datetime (midnight) of "dd.mm.yyyy\nhh:mm"
parse_auction_date(date_string) ==
    IF IsNone(date_string)
    THEN None   \* None.strip() raises, the except clause returns None
    ELSE LET parts == split(strip(Val(date_string)), "\n")
             date_part == parts[1]
             dmy == split(date_part, ".")
         IN  IF Len(dmy) # 3 \/ \E i \in 1..3 : ~IntOk(dmy[i])
             THEN None
             ELSE LET day == IntValue(dmy[1])
                      month == IntValue(dmy[2])
                      year == IntValue(dmy[3])
                  IN  IF DateValid(year, month, day)
                      THEN Some(Datetime(year, month, day))
                      ELSE None

-----------------------------------------------------------------------------
(* filter_logic.py: the filters.  A record is a dict with the keys miejsce,  *)
(* polozenie, forma, powierzchnia_ogolna, cena_wywolawcza, data_godzina,     *)
(* typ_nieruchomosci and obnizka, each an Optional value.                    *)

\* Python truthiness of an Optional str or list
Truthy(o) == ~IsNone(o) /\ Val(o) # <<>>

location_matches(record, target_location) ==
    \/ (Truthy(record.miejsce) /\ Contains(Val(record.miejsce), target_location))
    \/ (Truthy(record.polozenie) /\ Contains(Val(record.polozenie), target_location))

RECURSIVE filter_by_location_removing_in_place(_, _)
\* filter_by_location written as a loop that removes from the list it iterates over:
\* the element after a removed one is skipped
filter_by_location_removing_in_place(recs, target_location) ==
    IF recs = <<>> THEN <<>>
    ELSE IF location_matches(recs[1], target_location)
    THEN <<recs[1]>> \o filter_by_location_removing_in_place(Tail(recs), target_location)
    ELSE IF Len(recs) = 1 THEN <<>>
    ELSE <<recs[2]>> \o filter_by_location_removing_in_place(Tail(Tail(recs)), target_location)

filter_by_location(recs, target_location) ==
    SelectSeq(recs, LAMBDA record : location_matches(record, target_location))

\* county_matches that asks for the whole region name instead of a part of it
county_matches_whole_name(record, target_counties) ==
    LET powiat == get_powiat(record.polozenie)
    IN  /\ ~IsNone(powiat)
        /\ Val(powiat) # <<>>
        /\ \E i \in 1..Len(target_counties) :
               lower(Val(powiat)) = lower(target_counties[i])

county_matches(record, target_counties) ==
    LET powiat == get_powiat(record.polozenie)
        powiat_lower == lower(Val(powiat))
    IN  /\ ~IsNone(powiat)
        /\ Val(powiat) # <<>>
        /\ \E i \in 1..Len(target_counties) :
               Contains(powiat_lower, lower(target_counties[i]))

filter_by_counties(recs, target_counties) ==
    SelectSeq(recs, LAMBDA record : county_matches(record, target_counties))

form_matches(record, target_form) ==
    Truthy(record.forma) /\ lower(Val(record.forma)) = lower(target_form)

RECURSIVE filter_by_form_removing_in_place(_, _)
\* filter_by_form written as a loop that removes from the list it iterates over:
\* the element after a removed one is skipped
filter_by_form_removing_in_place(recs, target_form) ==
    IF recs = <<>> THEN <<>>
    ELSE IF form_matches(recs[1], target_form)
    THEN <<recs[1]>> \o filter_by_form_removing_in_place(Tail(recs), target_form)
    ELSE IF Len(recs) = 1 THEN <<>>
    ELSE <<recs[2]>> \o filter_by_form_removing_in_place(Tail(Tail(recs)), target_form)

filter_by_form(recs, target_form) ==
    SelectSeq(recs, LAMBDA record : form_matches(record, target_form))

\* filter_by_area with the comparison against min_area left out
filter_by_area_ignoring_min(recs, min_area, max_area) ==
    LET filtered == SelectSeq(recs, LAMBDA record : ~IsNone(record.powierzchnia_ogolna))
    IN  IF ~IsNone(max_area)
        THEN SelectSeq(filtered, LAMBDA record :
                 Val(record.powierzchnia_ogolna) <= Val(max_area))
        ELSE filtered

filter_by_area(recs, min_area, max_area) ==
    LET filtered == SelectSeq(recs, LAMBDA record :
                        /\ ~IsNone(record.powierzchnia_ogolna)
                        /\ Val(record.powierzchnia_ogolna) >= min_area)
    IN  IF ~IsNone(max_area)
        THEN SelectSeq(filtered, LAMBDA record :
                 Val(record.powierzchnia_ogolna) <= Val(max_area))
        ELSE filtered

filter_by_price(recs, min_price, max_price) ==
    LET lower_bounded ==
            IF ~IsNone(min_price)
            THEN SelectSeq(recs, LAMBDA record :
                     /\ ~IsNone(record.cena_wywolawcza)
                     /\ Val(record.cena_wywolawcza) >= Val(min_price))
            ELSE recs
    IN  IF ~IsNone(max_price)
        THEN SelectSeq(lower_bounded, LAMBDA record :
                 /\ ~IsNone(record.cena_wywolawcza)
                 /\ Val(record.cena_wywolawcza) <= Val(max_price))
        ELSE lower_bounded

\* the upper date bound: "... if max_days_from_now else None"
max_date_of(now, max_days_from_now) ==
    IF ~IsNone(max_days_from_now) /\ Val(max_days_from_now) # 0
    THEN Some(PlusDays(now, Val(max_days_from_now)))
    ELSE None

date_in_range(record, min_date, max_date) ==
    LET auction_date == parse_auction_date(record.data_godzina)
    IN  /\ ~IsNone(record.data_godzina)
        /\ ~IsNone(auction_date)
        /\ DatetimeLE(min_date, Val(auction_date))
        /\ (IsNone(max_date) \/ DatetimeLE(Val(auction_date), Val(max_date)))

\* now is the value datetime.now() returns at line 179
filter_by_date_range(recs, min_days_from_now, max_days_from_now, now) ==
    LET min_date == PlusDays(now, min_days_from_now)
        max_date == max_date_of(now, max_days_from_now)
    IN  SelectSeq(recs, LAMBDA record : date_in_range(record, min_date, max_date))

property_type_matches(record, property_types) ==
    /\ Truthy(record.typ_nieruchomosci)
    /\ \E i \in 1..Len(property_types) :
           Contains(lower(Val(record.typ_nieruchomosci)), lower(property_types[i]))

RECURSIVE filter_by_property_type_prepending(_, _)
\* filter_by_property_type written with filtered.insert(0, record): the kept records
\* come out in reverse order
filter_by_property_type_prepending(recs, property_types) ==
    IF recs = <<>> THEN <<>>
    ELSE IF property_type_matches(recs[1], property_types)
    THEN filter_by_property_type_prepending(Tail(recs), property_types) \o <<recs[1]>>
    ELSE filter_by_property_type_prepending(Tail(recs), property_types)

filter_by_property_type(recs, property_types) ==
    SelectSeq(recs, LAMBDA record : property_type_matches(record, property_types))

\* re.search(r'(\d+)', s): the Optional first run of digits
first_digits(s) ==
    LET p == Find(s, 1, DigitChars)
    IN  IF p > Len(s) THEN None ELSE Some(SubSeq(s, p, RunEnd(s, p, DigitChars)))

\* discount_matches with a strict comparison against the threshold
discount_matches_strictly_above(record, min_discount) ==
    LET match == IF Truthy(record.obnizka) THEN first_digits(Val(record.obnizka)) ELSE None
    IN  IF Truthy(record.obnizka)
        THEN ~IsNone(match) /\ DecimalValue(Val(match)) > min_discount
        ELSE min_discount = 0

\* discount_matches without the elif branch for a record with no discount text
discount_matches_text_only(record, min_discount) ==
    LET match == IF Truthy(record.obnizka) THEN first_digits(Val(record.obnizka)) ELSE None
    IN  Truthy(record.obnizka)
        /\ ~IsNone(match) /\ DecimalValue(Val(match)) >= min_discount

discount_matches(record, min_discount) ==
    LET match == IF Truthy(record.obnizka) THEN first_digits(Val(record.obnizka)) ELSE None
    IN  IF Truthy(record.obnizka)
        THEN ~IsNone(match) /\ DecimalValue(Val(match)) >= min_discount
        ELSE min_discount = 0

filter_by_discount(recs, min_discount) ==
    IF IsNone(min_discount)
    THEN recs
    ELSE SelectSeq(recs, LAMBDA record : discount_matches(record, Val(min_discount)))

-----------------------------------------------------------------------------
(* filter_logic.py: filter_records.  A filters dict has the twelve supported *)
(* keys, each an Optional value; {} and "filters is None" are both the dict  *)
(* with every key missing.                                                   *)

Trzebownisko == <<"T", "r", "z", "e", "b", "o", "w", "n", "i", "s", "k", "o">>

Sprzedaz == <<"s", "p", "r", "z", "e", "d", "a", "zdot">>

BestCounties == <<<<"lstroke", "a", "nacute", "c", "u", "c", "k", "i">>,
                  <<"r", "o", "p", "c", "z", "y", "c", "k", "o", " ", "s", "eogonek", "d", "z", "i", "s", "z", "o", "w", "s", "k", "i">>,
                  <<"r", "z", "e", "s", "z", "o", "w", "s", "k", "i">>>>

\* the preset merged under the caller's values (setdefault instead of update)
apply_best_offers_keeping_caller(f) ==
    IF ~IsNone(f.best_offers_only) /\ Val(f.best_offers_only)
    THEN [f EXCEPT !.location = IF IsNone(@) THEN Some(Trzebownisko) ELSE @,
                   !.counties = IF IsNone(@) THEN Some(BestCounties) ELSE @,
                   !.form = IF IsNone(@) THEN Some(Sprzedaz) ELSE @,
                   !.min_area = IF IsNone(@) THEN Some(8) ELSE @,
                   !.max_price = IF IsNone(@) THEN Some(20000) ELSE @,
                   !.min_days_from_now = IF IsNone(@) THEN Some(7) ELSE @]
    ELSE f

\* the preset with its max_price entry left out
apply_best_offers_without_max_price(f) ==
    IF ~IsNone(f.best_offers_only) /\ Val(f.best_offers_only)
    THEN [f EXCEPT !.location = Some(Trzebownisko),
                   !.counties = Some(BestCounties),
                   !.form = Some(Sprzedaz),
                   !.min_area = Some(8),
                   !.min_days_from_now = Some(7)]
    ELSE f

\* filters.update({...}) of the "best offers" preset
apply_best_offers(f) ==
    IF ~IsNone(f.best_offers_only) /\ Val(f.best_offers_only)
    THEN [f EXCEPT !.location = Some(Trzebownisko),
                   !.counties = Some(BestCounties),
                   !.form = Some(Sprzedaz),
                   !.min_area = Some(8),
                   !.max_price = Some(20000),
                   !.min_days_from_now = Some(7)]
    ELSE f

after_location(recs, f) ==
    IF Truthy(f.location) THEN filter_by_location(recs, Val(f.location)) ELSE recs

after_counties(recs, f) ==
    IF Truthy(f.counties)
    THEN filter_by_counties(after_location(recs, f), Val(f.counties))
    ELSE after_location(recs, f)

\* the form stage run only when the caller gave a form
after_form_only_if_supplied(recs, f) ==
    IF IsNone(f.form) THEN after_counties(recs, f)
    ELSE filter_by_form(after_counties(recs, f), Val(f.form))

after_form(recs, f) ==
    filter_by_form(after_counties(recs, f),
                   IF IsNone(f.form) THEN Sprzedaz ELSE Val(f.form))

\* the area stage run when either bound of the range was given
after_area_if_either_bound(recs, f) ==
    IF ~IsNone(f.min_area) \/ ~IsNone(f.max_area)
    THEN filter_by_area(after_form(recs, f),
                        IF IsNone(f.min_area) THEN 0 ELSE Val(f.min_area), f.max_area)
    ELSE after_form(recs, f)

after_area(recs, f) ==
    IF ~IsNone(f.min_area)
    THEN filter_by_area(after_form(recs, f), Val(f.min_area), f.max_area)
    ELSE after_form(recs, f)

after_price(recs, f) ==
    IF ~IsNone(f.min_price) \/ ~IsNone(f.max_price)
    THEN filter_by_price(after_area(recs, f), f.min_price, f.max_price)
    ELSE after_area(recs, f)

\* the date stage run only when the caller gave a bound of the window
after_date_range_only_if_supplied(recs, f, now) ==
    IF IsNone(f.min_days_from_now) /\ IsNone(f.max_days_from_now)
    THEN after_price(recs, f)
    ELSE filter_by_date_range(after_price(recs, f),
                              IF IsNone(f.min_days_from_now) THEN 7
                              ELSE Val(f.min_days_from_now),
                              f.max_days_from_now, now)

after_date_range(recs, f, now) ==
    filter_by_date_range(after_price(recs, f),
                         IF IsNone(f.min_days_from_now) THEN 7 ELSE Val(f.min_days_from_now),
                         f.max_days_from_now, now)

after_property_type(recs, f, now) ==
    IF Truthy(f.property_types)
    THEN filter_by_property_type(after_date_range(recs, f, now), Val(f.property_types))
    ELSE after_date_range(recs, f, now)

after_discount(recs, f, now) ==
    IF ~IsNone(f.min_discount)
    THEN filter_by_discount(after_property_type(recs, f, now), f.min_discount)
    ELSE after_property_type(recs, f, now)

\* the list filter_records returns; now is the value of datetime.now() in the date stage
filter_records(recs, f, now) ==
    IF recs = <<>> THEN <<>> ELSE after_discount(recs, apply_best_offers(f), now)

\* the caller's dict after filter_records returned
filters_after(recs, f) ==
    IF recs = <<>> THEN f ELSE apply_best_offers(f)

-----------------------------------------------------------------------------
(* filter_logic.py: calculate_stats.  A float is an exact fraction <<n, d>>  *)
(* in lowest terms, d > 0; areas are converted from hundredths to hectares.  *)

RECURSIVE GCD(_, _)
GCD(a, b) == IF b = 0 THEN a ELSE GCD(b, a % b)

Abs(n) == IF n < 0 THEN 0 - n ELSE n

Frac(n, d) ==
    LET g == GCD(Abs(n), d)
    IN  <<n \div g, d \div g>>

FracAdd(x, y) == Frac(x[1] * y[2] + y[1] * x[2], x[2] * y[2])

RECURSIVE FracSum(_)
FracSum(xs) == IF xs = <<>> THEN Frac(0, 1) ELSE FracAdd(xs[1], FracSum(Tail(xs)))

\* sum(xs) / len(xs) if xs else 0
mean_or_zero(xs) ==
    IF xs = <<>> THEN Frac(0, 1)
    ELSE LET s == FracSum(xs) IN Frac(s[1], s[2] * Len(xs))

\* the hectares of an area given in hundredths
hectares(a) == Frac(a, 100)

has_price_per_hectare(record) ==
    LET area == record.powierzchnia_ogolna
        price == record.cena_wywolawcza
    IN  /\ ~IsNone(area) /\ Val(area) # 0
        /\ ~IsNone(price) /\ Val(price) # 0
        /\ Val(area) > 0

\* price / area, in PLN per hectare
price_per_hectare_of(record) ==
    Frac(Val(record.cena_wywolawcza) * 100, Val(record.powierzchnia_ogolna))

min_or_zero(ns) ==
    IF ns = <<>> THEN 0
    ELSE CHOOSE m \in {ns[i] : i \in 1..Len(ns)} : \A i \in 1..Len(ns) : m <= ns[i]

max_or_zero(ns) ==
    IF ns = <<>> THEN 0
    ELSE CHOOSE m \in {ns[i] : i \in 1..Len(ns)} : \A i \in 1..Len(ns) : m >= ns[i]

\* calculate_stats with an absent area or price counted as 0
calculate_stats_absent_as_zero(recs) ==
    LET areas == [i \in 1..Len(recs) |->
                     IF IsNone(recs[i].powierzchnia_ogolna) THEN Frac(0, 1)
                     ELSE hectares(Val(recs[i].powierzchnia_ogolna))]
        prices == [i \in 1..Len(recs) |->
                      IF IsNone(recs[i].cena_wywolawcza) THEN 0
                      ELSE Val(recs[i].cena_wywolawcza)]
        with_both == SelectSeq(recs, has_price_per_hectare)
        price_per_hectare == [i \in 1..Len(with_both) |-> price_per_hectare_of(with_both[i])]
    IN  [count |-> Len(recs),
         avg_area |-> mean_or_zero(areas),
         avg_price |-> mean_or_zero([i \in 1..Len(prices) |-> Frac(prices[i], 1)]),
         min_price |-> min_or_zero(prices),
         max_price |-> max_or_zero(prices),
         avg_price_per_hectare |-> mean_or_zero(price_per_hectare)]

calculate_stats(recs) ==
    LET with_area == SelectSeq(recs, LAMBDA r : ~IsNone(r.powierzchnia_ogolna))
        with_price == SelectSeq(recs, LAMBDA r : ~IsNone(r.cena_wywolawcza))
        areas == [i \in 1..Len(with_area) |-> hectares(Val(with_area[i].powierzchnia_ogolna))]
        prices == [i \in 1..Len(with_price) |-> Val(with_price[i].cena_wywolawcza)]
        with_both == SelectSeq(recs, has_price_per_hectare)
        price_per_hectare == [i \in 1..Len(with_both) |-> price_per_hectare_of(with_both[i])]
    IN  IF recs = <<>>
        THEN [count |-> 0, avg_area |-> Frac(0, 1), avg_price |-> Frac(0, 1),
              min_price |-> 0, max_price |-> 0, avg_price_per_hectare |-> Frac(0, 1)]
        ELSE [count |-> Len(recs),
              avg_area |-> mean_or_zero(areas),
              avg_price |-> mean_or_zero([i \in 1..Len(prices) |-> Frac(prices[i], 1)]),
              min_price |-> min_or_zero(prices),
              max_price |-> max_or_zero(prices),
              avg_price_per_hectare |-> mean_or_zero(price_per_hectare)]

-----------------------------------------------------------------------------
(* pdf_parser.py: extract_attributes_and_discount *)

Obnizka == <<"o", "b", "n", "i", "zdot", "k", "a">>

ObnizkaAscii == <<"o", "b", "n", "i", "z", "k", "a">>

\* where a match of obni[zdot z]ka\s+(\d+)\s*% that starts at i ends in s (0: no match)
discount_match_end(s, i) ==
    LET k == i + Len(Obnizka)                      \* first character after the word
        sp == RunEnd(s, k, SpaceChars)             \* \s+
        dg == RunEnd(s, sp + 1, DigitChars)        \* (\d+)
        pc == RunEnd(s, dg + 1, SpaceChars) + 1    \* \s* and then %
    IN  IF /\ k - 1 <= Len(s)
           /\ s[i] = "o"
           /\ SubSeq(s, i, k - 1) \in {Obnizka, ObnizkaAscii}
           /\ sp >= k
           /\ dg > sp
           /\ pc <= Len(s) /\ s[pc] = "%"
        THEN pc
        ELSE 0

\* the digits of the match that starts at i
discount_match_group(s, i) ==
    LET sp == RunEnd(s, i + Len(Obnizka), SpaceChars)
    IN  SubSeq(s, sp + 1, RunEnd(s, sp + 1, DigitChars))

RECURSIVE discount_search_from(_, _)
discount_search_from(s, i) ==
    IF i > Len(s) THEN 0
    ELSE IF discount_match_end(s, i) # 0 THEN i
    ELSE discount_search_from(s, i + 1)

\* re.search: the start of the leftmost match in s (0: none)
discount_search(s) == discount_search_from(s, 1)

\* re.sub with count=1: only the leftmost match removed
discount_sub_first_only(t) ==
    LET low == lower(t)
        i == discount_search(low)
    IN  IF i = 0 THEN t
        ELSE SubSeq(t, 1, i - 1) \o SubSeq(t, discount_match_end(low, i) + 1, Len(t))

RECURSIVE discount_sub(_)
\* re.sub(pattern, '', t, flags=re.IGNORECASE): every match removed, left to right
discount_sub(t) ==
    LET low == lower(t)
        i == discount_search(low)
    IN  IF i = 0 THEN t
        ELSE SubSeq(t, 1, i - 1)
             \o discount_sub(SubSeq(t, discount_match_end(low, i) + 1, Len(t)))

\* the pair (attributes, discount)
extract_attributes_and_discount(t) ==
    IF IsNone(t) \/ Val(t) = <<>>
    THEN <<(<<>>), (<<>>)>>
    ELSE LET low == lower(Val(t))
             i == discount_search(low)
         IN  IF i # 0
             THEN <<strip(discount_sub(Val(t))),
                    Obnizka \o <<" ">> \o discount_match_group(low, i) \o <<"%">> >>
             ELSE <<strip(Val(t)), (<<>>)>>

-----------------------------------------------------------------------------
(* pdf_parser.py: safe_float.  A float is an exact fraction <<n, d>>. *)

\* value.replace(",", ".") left out
replace_comma_left_out(s) == s

RECURSIVE replace_comma(_)
\* value.replace(",", ".")
replace_comma(s) ==
    IF s = <<>> THEN <<>>
    ELSE <<IF s[1] = "," THEN "." ELSE s[1]>> \o replace_comma(Tail(s))

\* the characters re.sub(r'[^\d.-]', '', ...) keeps
FloatChars == DigitChars \cup {".", "-"}

\* re.sub(r'[^\d.-]', '', s)
sub_non_numeric(s) == SelectSeq(s, LAMBDA c : c \in FloatChars)

RECURSIVE Pow10(_)
Pow10(k) == IF k = 0 THEN 1 ELSE 10 * Pow10(k - 1)

\* the digits float() reads before and after the point of a string of FloatChars
float_parts(s) ==
    LET body == IF s # <<>> /\ s[1] = "-" THEN Tail(s) ELSE s
        point == Find(body, 1, {"."})
    IN  [int_part |-> SubSeq(body, 1, point - 1),
         frac_part |-> SubSeq(body, point + 1, Len(body))]

\* whether float(s) raises ValueError, for a string of FloatChars: the literal is
\* an optional "-", digits with at most one point, and at least one digit
float_raises(s) ==
    LET parts == float_parts(s)
    IN  \/ \E i \in 1..Len(parts.int_part) : parts.int_part[i] \notin DigitChars
        \/ \E i \in 1..Len(parts.frac_part) : parts.frac_part[i] \notin DigitChars
        \/ Len(parts.int_part) + Len(parts.frac_part) = 0

\* float(s) when it does not raise
float_value(s) ==
    LET parts == float_parts(s)
        scale == Pow10(Len(parts.frac_part))
        magnitude == DecimalValue(parts.int_part) * scale + DecimalValue(parts.frac_part)
    IN  Frac(IF s[1] = "-" THEN 0 - magnitude ELSE magnitude, scale)

\* safe_float: the Optional float of a cell, value_default when there is none
safe_float(value, value_default) ==
    IF IsNone(value) \/ Val(value) = <<>>
    THEN value_default
    ELSE LET cleaned == sub_non_numeric(replace_comma(Val(value)))
         IN  IF cleaned = <<>> THEN value_default
             ELSE IF float_raises(cleaned) THEN value_default   \* except ValueError
             ELSE Some(float_value(cleaned))

-----------------------------------------------------------------------------
(* pdf_parser.py: the record builder and the batch processor.  A raw row is  *)
(* a sequence of cells, a cell an Optional str; the cell Python writes       *)
(* row[k] is row[k + 1] here.                                                *)

\* safe_int: the Optional int at the start of the stripped cell
safe_int(value, value_default) ==
    IF IsNone(value) \/ Val(value) = <<>>
    THEN value_default
    ELSE LET stripped == strip(Val(value))
             last == RunEnd(stripped, 1, DigitChars)   \* re.search(r'^\d+', ...)
         IN  IF last >= 1 THEN Some(DecimalValue(SubSeq(stripped, 1, last)))
             ELSE value_default

\* extract_property_type_and_character: <<type, character>>
extract_property_type_and_character(property_text) ==
    IF IsNone(property_text) \/ Val(property_text) = <<>>
    THEN <<(<<>>), (<<>>)>>
    ELSE LET parts == split(strip(Val(property_text)), "\n")
         IN  <<parts[1], IF Len(parts) > 1 THEN parts[2] ELSE <<>> >>

Razem == <<"R", "a", "z", "e", "m">>

\* whether any non-empty cell of the row holds "Razem"
has_razem(row) == \E i \in 1..Len(row) : Truthy(row[i]) /\ Contains(Val(row[i]), Razem)

\* filter_table_data: the rows with no "Razem" cell
filter_table_data(rows) == SelectSeq(rows, LAMBDA row : ~has_razem(row))

\* the least number of cells of a row that is processed
MinColumns == 12

\* the dict process_table_row builds from a row that has a first cell
build_processed_row(row) ==
    LET cell(k, otherwise) == IF Len(row) > k THEN row[k + 1] ELSE otherwise
        split_attributes == extract_attributes_and_discount(cell(8, Some(<<>>)))
        split_property == extract_property_type_and_character(cell(7, Some(<<>>)))
    IN  [lp |-> IF Truthy(row[1]) THEN safe_int(row[1], None) ELSE None,
         data_godzina |-> cell(2, Some(<<>>)),
         miejsce |-> cell(3, Some(<<>>)),
         polozenie |-> cell(4, Some(<<>>)),
         forma |-> cell(5, Some(<<>>)),
         rodzaj_przetargu |-> cell(6, Some(<<>>)),
         typ_nieruchomosci |-> split_property[1],
         charakter_nieruchomosci |-> split_property[2],
         atrybuty |-> split_attributes[1],
         obnizka |-> split_attributes[2],
         powierzchnia_ogolna |-> IF Len(row) > 9 THEN safe_float(row[10], None) ELSE None,
         powierzchnia_ur |-> IF Len(row) > 10 THEN safe_float(row[11], None) ELSE None,
         cena_wywolawcza |-> IF Len(row) > 11 THEN safe_float(row[12], None) ELSE None,
         kolejny_przetarg |-> IF Len(row) > 12 THEN safe_int(row[13], None) ELSE None,
         uwagi |-> cell(13, None)]

\* the required-fields test with "is not None" in place of truthiness
required_fields_present_not_none(processed_row) ==
    /\ ~IsNone(processed_row.lp)
    /\ ~IsNone(processed_row.data_godzina)
    /\ ~IsNone(processed_row.miejsce)

\* all(processed_row[field] for field in ["lp", "data_godzina", "miejsce"])
required_fields_present(processed_row) ==
    /\ ~IsNone(processed_row.lp) /\ Val(processed_row.lp) # 0
    /\ Truthy(processed_row.data_godzina)
    /\ Truthy(processed_row.miejsce)

\* the body of process_table_row after the width test; row[0] of an empty row
\* raises IndexError, which the except clause turns into None
checked_processed_row(row) ==
    IF row = <<>> THEN None
    ELSE LET processed_row == build_processed_row(row)
         IN  IF required_fields_present(processed_row) THEN Some(processed_row)
             ELSE None

\* process_table_row with the width test left out
process_table_row_any_width(row) == checked_processed_row(row)

\* process_table_row: the Optional record of a raw row
process_table_row(row) ==
    IF Len(row) < MinColumns THEN None ELSE checked_processed_row(row)

RECURSIVE process_rows_prepending(_)
\* the processing loop written with processed_data.insert(0, processed_row)
process_rows_prepending(rows) ==
    IF rows = <<>> THEN <<>>
    ELSE LET processed_row == process_table_row(rows[1])
         IN  IF IsNone(processed_row) THEN process_rows_prepending(Tail(rows))
             ELSE process_rows_prepending(Tail(rows)) \o <<Val(processed_row)>>

RECURSIVE process_rows_until_malformed(_)
\* the processing loop leaving at the first row that gives no record
process_rows_until_malformed(rows) ==
    IF rows = <<>> THEN <<>>
    ELSE LET processed_row == process_table_row(rows[1])
         IN  IF IsNone(processed_row) THEN <<>>
             ELSE <<Val(processed_row)>> \o process_rows_until_malformed(Tail(rows))

RECURSIVE process_rows(_)
\* the processing loop of extract_data_from_pdf
process_rows(rows) ==
    IF rows = <<>> THEN <<>>
    ELSE LET processed_row == process_table_row(rows[1])
         IN  IF IsNone(processed_row) THEN process_rows(Tail(rows))
             ELSE <<Val(processed_row)>> \o process_rows(Tail(rows))

\* extract_data_from_pdf on the rows the table extraction returned
extract_data_from_tables(rows) == process_rows(filter_table_data(rows))

CenaWywolawcza == <<"C", "e", "n", "a", " ", "w", "y", "w", "o", "lstroke", "a", "w", "c", "z", "a">>

\* cleaned_table: the rows of a page's table that have a twelfth cell which is
\* not None and does not hold the header text
cleaned_table(table) ==
    SelectSeq(table, LAMBDA row : /\ Len(row) > 11
                                  /\ ~IsNone(row[12])
                                  /\ ~Contains(Val(row[12]), CenaWywolawcza))

RECURSIVE extract_pages(_, _)
\* the loop over pdf.pages, from all_data on: whether page.extract_table()
\* raised, and all_data at that point or at the end
extract_pages(pages, all_data) ==
    IF pages = <<>> THEN [raised |-> FALSE, all_data |-> all_data]
    ELSE IF pages[1].raises THEN [raised |-> TRUE, all_data |-> all_data]
    ELSE IF IsNone(pages[1].table) \/ Val(pages[1].table) = <<>>
    THEN extract_pages(Tail(pages), all_data)
    ELSE extract_pages(Tail(pages), all_data \o cleaned_table(Val(pages[1].table)))

\* extract_tables_from_pdf_bytes: pdfplumber.open raises on a file it cannot
\* open, page.extract_table() on a page it cannot read
extract_tables_from_pdf_bytes(file) ==
    IF ~file.opens THEN [raised |-> TRUE, all_data |-> <<>>]
    ELSE extract_pages(file.pages, <<>>)

\* extract_data_from_pdf returning what was read before the exception
extract_data_from_pdf_returning_partial(file) ==
    LET extracted == extract_tables_from_pdf_bytes(file)
    IN  [raised |-> "", table_data |-> extracted.all_data,
         returned |-> extract_data_from_tables(extracted.all_data)]

\* extract_data_from_pdf: the exception it raises ("" for none), the rows of
\* the extracted tables and the list it returns
extract_data_from_pdf(file) ==
    LET extracted == extract_tables_from_pdf_bytes(file)
    IN  IF extracted.raised
        THEN [raised |-> "ValueError", table_data |-> <<>>, returned |-> <<>>]
        ELSE [raised |-> "", table_data |-> extracted.all_data,
              returned |-> extract_data_from_tables(extracted.all_data)]

-----------------------------------------------------------------------------
(* The inputs the operations are called with *)

\* the longest record list built from more than one record
MaxRecords == 2

\* every list of at most n elements of S
Lists(S, n) == UNION {[1..k -> S] : k \in 0..n}

\* the values datetime.now() takes: a midnight, a noon, and a noon a week earlier
Nows == {[ordinal |-> Ordinal(2025, 4, 5), second |-> 0],
         [ordinal |-> Ordinal(2025, 4, 5), second |-> 43200],
         [ordinal |-> Ordinal(2025, 3, 29), second |-> 43200]}

\* the times at which a file is uploaded: the midnight and the noon of one day
UploadTimes == {now \in Nows : now.ordinal = Ordinal(2025, 4, 5)}

\* record A of the end-to-end example: 0.1 ha, 15000 PLN, powiat rzeszowski,
\* sale, auction on 15.04.2025, held in Trzebownisko
RecordA ==
    [miejsce |-> Some(Trzebownisko),
     polozenie |-> Some(<<"p", "o", "d", "k", "a", "r", "p", "a", "c", "k", "i", "e", "/", "r", "z", "e", "s", "z", "o", "w", "s", "k", "i", "/", "J", "a", "s", "i", "o", "n", "k", "a", "/", "1", "2">>),
     forma |-> Some(Sprzedaz),
     powierzchnia_ogolna |-> Some(10),
     cena_wywolawcza |-> Some(15000),
     data_godzina |-> Some(<<"1", "5", ".", "0", "4", ".", "2", "0", "2", "5", "\n", "9", ":", "0", "0">>),
     typ_nieruchomosci |-> Some(<<"r", "o", "l", "n", "a">>),
     obnizka |-> Some(<<>>)]

MiejsceValues == {Some(<<"R", "z", "e", "s", "z", "oacute", "w">>), None}

PolozenieValues ==
    {Some(<<"p", "o", "d", "k", "a", "r", "p", "a", "c", "k", "i", "e", "/", "lstroke", "a", "nacute", "c", "u", "c", "k", "i", "/", "LSTROKE", "a", "nacute", "c", "u", "t", "/", "7">>),
     Some(<<"p", "o", "d", "k", "a", "r", "p", "a", "c", "k", "i", "e", "/", "r", "o", "p", "c", "z", "y", "c", "k", "o", "-", "s", "eogonek", "d", "z", "i", "s", "z", "o", "w", "s", "k", "i", "/", "O", "s", "t", "r", "oacute", "w", "/", "3">>),
     Some(<<"p", "o", "d", "k", "a", "r", "p", "a", "c", "k", "i", "e", "/", " ", "R", "o", "p", "c", "z", "y", "c", "k", "o", " ", "S", "eogonek", "d", "z", "i", "s", "z", "o", "w", "s", "k", "i">>),
     Some(<<"l", "u", "b", "e", "l", "s", "k", "i", "e", "/", "c", "h", "e", "lstroke", "m", "s", "k", "i", "/", "1">>),
     None}

FormaValues == {Some(<<"S", "p", "r", "z", "e", "d", "a", "zdot">>), Some(<<"d", "z", "i", "e", "r", "zdot", "a", "w", "a">>), None}

AreaValues == {Some(0), Some(5), Some(8), None}

PriceValues == {Some(0), Some(20000), Some(20001), None}

DateValues ==
    {Some(<<"1", "2", ".", "0", "4", ".", "2", "0", "2", "5", "\n", "1", "0", ":", "3", "0">>),
     Some(<<"0", "5", ".", "0", "4", ".", "2", "0", "2", "5">>),
     Some(<<"0", "6", ".", "0", "4", ".", "2", "0", "2", "5">>),
     Some(<<"3", "1", ".", "0", "4", ".", "2", "0", "2", "5", "\n", "9", ":", "0", "0">>),
     Some(<<"n", "o", "t", "-", "a", "-", "d", "a", "t", "e">>),
     None}

TypValues == {Some(<<"B", "u", "d", "o", "w", "l", "a", "n", "a">>), Some(<<>>), None}

ObnizkaValues == {Some(<<"o", "b", "n", "i", "zdot", "k", "a", " ", "3", "0", "%">>), Some(<<"o", "b", "n", "i", "zdot", "k", "a", " ", "5", "0", "%">>), Some(<<"b", "r", "a", "k">>), None}

\* record A and every record that differs from it in one field
RecordPool ==
    {RecordA}
    \cup {[RecordA EXCEPT !.miejsce = v] : v \in MiejsceValues}
    \cup {[RecordA EXCEPT !.polozenie = v] : v \in PolozenieValues}
    \cup {[RecordA EXCEPT !.forma = v] : v \in FormaValues}
    \cup {[RecordA EXCEPT !.powierzchnia_ogolna = v] : v \in AreaValues}
    \cup {[RecordA EXCEPT !.cena_wywolawcza = v] : v \in PriceValues}
    \cup {[RecordA EXCEPT !.data_godzina = v] : v \in DateValues}
    \cup {[RecordA EXCEPT !.typ_nieruchomosci = v] : v \in TypValues}
    \cup {[RecordA EXCEPT !.obnizka = v] : v \in ObnizkaValues}

\* record B of the end-to-end example: as A, with 0.05 ha
RecordB == [RecordA EXCEPT !.powierzchnia_ogolna = Some(5)]

\* the records the longer lists are built from
CorePool ==
    {RecordA, RecordB,
     [RecordA EXCEPT !.miejsce = Some(<<"R", "z", "e", "s", "z", "oacute", "w">>)],
     [RecordA EXCEPT !.obnizka = Some(<<"o", "b", "n", "i", "zdot", "k", "a", " ", "3", "0", "%">>),
                     !.data_godzina = Some(<<"1", "2", ".", "0", "4", ".", "2", "0", "2", "5", "\n", "1", "0", ":", "3", "0">>),
                     !.typ_nieruchomosci = Some(<<"B", "u", "d", "o", "w", "l", "a", "n", "a">>)]}

RecordLists == {<<r>> : r \in RecordPool} \cup Lists(CorePool, MaxRecords)

\* the filters dict with no key
NoFilters ==
    [location |-> None, counties |-> None, form |-> None,
     min_area |-> None, max_area |-> None, min_price |-> None, max_price |-> None,
     min_days_from_now |-> None, max_days_from_now |-> None,
     property_types |-> None, min_discount |-> None, best_offers_only |-> None]

PresetKeys == {"location", "counties", "form", "min_area", "max_price", "min_days_from_now"}


\* the values a caller gives to each key
OptionValues ==
    [location |-> {Some(Trzebownisko), Some(<<"J", "a", "s", "i", "o", "n", "k", "a">>), Some(<<>>)},
     counties |-> {Some(<<<<"R", "z", "e", "s", "z", "o", "w", "s", "k", "i">>>>), Some(<<>>)},
     form |-> {Some(<<"D", "z", "i", "e", "r", "zdot", "a", "w", "a">>)},
     min_area |-> {Some(0), Some(10)},
     max_area |-> {Some(8)},
     min_price |-> {Some(20000)},
     max_price |-> {Some(0), Some(20000)},
     min_days_from_now |-> {Some(0), Some(10)},
     max_days_from_now |-> {Some(0), Some(10)},
     property_types |-> {Some(<<<<"r", "o", "l", "n", "a">>>>), Some(<<<<"l", "e", "s", "n", "a">>, <<"b", "u", "d", "o", "w", "l", "a", "n", "a">>>>), Some(<<>>)},
     min_discount |-> {Some(0), Some(30), Some(40)},
     best_offers_only |-> {Some(TRUE), Some(FALSE)}]

\* the dicts with one key
Configs1 == {[NoFilters EXCEPT ![k] = v] : <<k, v>> \in
                UNION {{k} \X OptionValues[k] : k \in DOMAIN OptionValues}}

\* the dicts with at most two keys
Configs ==
    {NoFilters} \cup Configs1
    \cup UNION {{[f EXCEPT ![k] = v] : v \in OptionValues[k]} :
                    <<f, k>> \in Configs1 \X DOMAIN OptionValues}

\* the dicts, of those, that ask for the preset
PresetConfigs == {f \in Configs : ~IsNone(f.best_offers_only) /\ Val(f.best_offers_only)}

\* the records of the area-range calls: record A with every total area, and a
\* lease of 0.1 ha
AreaRecordLists ==
    Lists({[RecordA EXCEPT !.powierzchnia_ogolna = a] : a \in AreaValues \cup {Some(10)}}
          \cup {[RecordA EXCEPT !.forma = Some(<<"d", "z", "i", "e", "r", "zdot", "a", "w", "a">>)]},
          MaxRecords)

\* the filters of the area-range calls: every range, with and without the preset
AreaConfigs ==
    {[NoFilters EXCEPT !.min_area = lo, !.max_area = hi, !.best_offers_only = best] :
        lo \in {None, Some(0), Some(8), Some(10)},
        hi \in {None, Some(0), Some(8)},
        best \in {None, Some(TRUE)}}

\* the records of the date-window calls: record A with every scheduled date
DateRecordLists == Lists({RecordA} \cup {[RecordA EXCEPT !.data_godzina = v] : v \in DateValues},
                         MaxRecords)

\* the records of the statistics calls: every area with every price
StatsRecordLists ==
    Lists({[RecordA EXCEPT !.powierzchnia_ogolna = a, !.cena_wywolawcza = p] :
               a \in AreaValues \cup {Some(10)}, p \in PriceValues \cup {Some(15000)}},
          MaxRecords)

\* the records of the independent filters: venue, type and discount vary
IndependentRecordLists ==
    Lists({RecordA,
           [RecordA EXCEPT !.miejsce = Some(<<"R", "z", "e", "s", "z", "oacute", "w">>)],
           [RecordA EXCEPT !.typ_nieruchomosci = Some(<<"B", "u", "d", "o", "w", "l", "a", "n", "a">>)],
           [RecordA EXCEPT !.obnizka = Some(<<"o", "b", "n", "i", "zdot", "k", "a", " ", "3", "0", "%">>)],
           [RecordA EXCEPT !.obnizka = Some(<<"o", "b", "n", "i", "zdot", "k", "a", " ", "3", "0", "%">>), !.miejsce = Some(<<"R", "z", "e", "s", "z", "oacute", "w">>)],
           [RecordA EXCEPT !.obnizka = Some(<<"b", "r", "a", "k">>), !.typ_nieruchomosci = None]},
          MaxRecords)

\* the orders in which a caller may chain the three independent filters
Orders ==
    {o \in [1..3 -> {"location", "property_type", "discount"}] :
        \A i, j \in 1..3 : i # j => o[i] # o[j]}

\* the attribute texts: [prefix] word [gap] [digits] [gap] [%] [suffix]
Texts ==
    {None, Some(<<>>)} \cup
    {Some(pre \o word \o gap \o digits \o pct \o suf) :
        pre \in {<<>>, <<"d", "u", "zdot", "a", " ", "d", "z", "i", "a", "lstroke", "k", "a", " ">>, <<" ", "x">>},
        word \in {Obnizka, ObnizkaAscii, <<"O", "b", "n", "i", "zdot", "k", "a">>, <<"O", "B", "N", "I", "ZDOT", "K", "A">>, <<"z", "n", "i", "z", "k", "a">>},
        gap \in {<<>>, <<" ">>, <<" ", " ">>},
        digits \in {<<>>, <<"3", "0">>, <<"0", "7">>},
        pct \in {<<>>, <<"%">>, <<" ", "%">>},
        suf \in {<<>>, <<" ", "n", "a", "r", "o", "zdot", "n", "a">>, <<" ", "o", "b", "n", "i", "zdot", "k", "a", " ", "5", "%", " ">>}}

\* the records of the discount filter: record A with every discount text
DiscountRecordLists ==
    Lists({[RecordA EXCEPT !.obnizka = v] :
               v \in ObnizkaValues
                     \cup {Some(<<>>), Some(<<"3", "0", "%", " ", "i", " ", "5", "0", "%">>)}},
          MaxRecords)

\* the thresholds of the discount filter
Thresholds == {None, Some(0), Some(30), Some(31), Some(50)}

\* the records of the counties filter: record A with every location path
CountyRecordLists ==
    Lists({[RecordA EXCEPT !.polozenie = v] :
               v \in PolozenieValues \cup {RecordA.polozenie, Some(<<>>)}},
          MaxRecords)

\* the target lists of the counties filter
TargetCounties ==
    {BestCounties,
     <<<<"R", "Z", "E", "S", "Z", "O", "W", "S", "K", "I">>>>,
     <<<<"r", "z", "e", "s", "z">>, <<"c", "h", "e", "lstroke", "m">>>>,
     <<<<"p", "o", "w", "i", "a", "t", " ", "r", "z", "e", "s", "z", "o", "w", "s", "k", "i">>>>,
     <<>>}

\* the cells handed to safe_float: [sign] [integer] [separator] [fraction] [unit]
FloatTexts ==
    {None, Some(<<>>), Some(<<"N", "/", "A">>), Some(<<"1", ".", "2", ".", "3">>)} \cup
    {Some(sign \o whole \o sep \o part \o unit) :
        sign \in {<<>>, <<"-">>, <<"-", "-">>},
        whole \in {<<>>, <<"1", "2">>, <<"1", " ", "2", "3", "4">>, <<"0">>},
        sep \in {<<>>, <<",">>, <<".">>, <<",", ".">>},
        part \in {<<>>, <<"5">>, <<"0", "8", "0", "0">>, <<"2", ".", "3">>},
        unit \in {<<>>, <<" ", "h", "a">>, <<" ", "z", "lstroke">>, <<"-">>}}

\* the defaults handed to safe_float
Defaults == {None, Some(<<0, 1>>)}

\* the texts handed to parse_auction_date: [lead] day.month.year [tail]
DateTexts ==
    {None, Some(<<>>), Some(<<"1", "5", ".", "0", "4", ".", "2", "0", "2", "5", "\n", "9", ":", "0", "0">>), Some(<<"n", "o", "t", "-", "a", "-", "d", "a", "t", "e">>), Some(<<"1", "5", ".", "0", "4">>)} \cup
    {Some(lead \o day \o <<".">> \o month \o <<".">> \o year \o tail) :
        lead \in {<<>>, <<"\n">>, <<" ">>},
        day \in {<<"1", "5">>, <<"3", "1">>, <<"2", "9">>, <<"0", "0">>, <<"+", "7">>, <<"x">>, <<>>},
        month \in {<<"0", "4">>, <<"0", "2">>, <<"1", "3">>, <<"4", " ">>},
        year \in {<<"2", "0", "2", "5">>, <<"2", "0", "2", "4">>, <<"0">>, <<"2", "0", "x", "5">>},
        tail \in {<<>>, <<"\n", "9", ":", "0", "0">>, <<".", "1">>, <<" ", "9", ":", "0", "0">>}}

\* the paths handed to get_powiat: [prefix] anchor [gap] [token] [suffix]
Paths ==
    {None, Some(<<>>)} \cup
    {Some(prefix \o anchor \o gap \o token \o suffix) :
        prefix \in {<<>>, <<"w", "o", "j", ".", " ">>, <<"p", "o", "d", "k", "a", "r", "p", "a", "c", "k", "i", "e", "/", "/">>},
        anchor \in {Podkarpackie, <<"P", "o", "d", "k", "a", "r", "p", "a", "c", "k", "i", "e", "/">>, <<"p", "o", "d", "k", "a", "r", "p", "a", "c", "k", "i", "e">>, <<"l", "u", "b", "e", "l", "s", "k", "i", "e", "/">>},
        gap \in {<<>>, <<" ">>, <<"\n", " ">>},
        token \in {<<"r", "z", "e", "s", "z", "o", "w", "s", "k", "i">>, <<"r", "o", "p", "c", "z", "y", "c", "k", "o", "-", "s", "eogonek", "d", "z", "i", "s", "z", "o", "w", "s", "k", "i">>, <<"r", "o", "p", "c", "z", "y", "c", "k", "o", " ", "s", "eogonek", "d", "z", "i", "s", "z", "o", "w", "s", "k", "i">>, <<"LSTROKE", "a", "nacute", "c", "u", "c", "k", "i", "_", "1">>, <<>>, <<"-", "x">>},
        suffix \in {<<>>, <<"/", "T", "r", "z", "e", "b", "o", "w", "n", "i", "c", "a", "/", "O", "b", "r", "1", "/", "1", "2", "3">>, <<" ", "/", "a">>, <<"-", " ", "b", "/", "c">>}}

\* the longest table handed to the batch processor
MaxRows == 2

\* a raw row of fourteen cells that yields a record
BaseRow ==
    <<Some(<<"1">>), Some(<<"x">>), Some(<<"1", "5", ".", "0", "4", ".", "2", "0", "2", "5", "\n", "9", ":", "0", "0">>), Some(<<"J", "a", "s", "i", "o", "n", "k", "a">>), Some(<<"p", "o", "d", "k", "a", "r", "p", "a", "c", "k", "i", "e", "/", "r", "z", "e", "s", "z", "o", "w", "s", "k", "i">>),
      Some(<<"s", "p", "r", "z", "e", "d", "a", "zdot">>), Some(<<"u", "s", "t", "n", "y">>), Some(<<"r", "o", "l", "n", "a", "\n", "z", "a", "b", "u", "d", "o", "w", "a", "n", "a">>), Some(<<"r", "oacute", "g", " ", "o", "b", "n", "i", "zdot", "k", "a", " ", "5", "%">>), Some(<<"0", ",", "0", "8">>),
      Some(<<"0", ",", "0", "5">>), Some(<<"1", "5", " ", "0", "0", "0">>), Some(<<"2">>), Some(<<"b", "r", "a", "k">>)>>

\* the first cells (sequence numbers) of the rows
LpCells == {Some(<<"1", "2", "a", "b", "c">>), Some(<<" ", "7", " ">>), Some(<<"a", "b", "c">>), Some(<<"0">>), Some(<<"-", "5">>),
            Some(<<"0", "0", "7">>), Some(<<>>), None}

\* the cells of a required text field
RequiredCells == {Some(<<>>), None, Some(<<" ">>)}

\* the raw rows: the base row, with every first cell, with every date and venue
\* cell, with "Razem" in a cell, and cut to fewer cells
RowPool ==
    {BaseRow}
    \cup {[BaseRow EXCEPT ![1] = c] : c \in LpCells}
    \cup {[BaseRow EXCEPT ![3] = c] : c \in RequiredCells}
    \cup {[BaseRow EXCEPT ![4] = c] : c \in RequiredCells}
    \cup {[BaseRow EXCEPT ![1] = Some(Razem)],
          [BaseRow EXCEPT ![14] = Some(<<"R", "a", "z", "e", "m", ":", " ", "5">>)],
          [BaseRow EXCEPT ![2] = Some(<<"r", "a", "z", "e", "m">>)]}
    \cup {SubSeq(BaseRow, 1, n) : n \in {0, 1, 11, 12, 13}}
    \cup {SubSeq([BaseRow EXCEPT ![1] = Some(<<"5">>), ![9] = None, ![10] = Some(<<"N", "/", "A">>)], 1, n) :
              n \in {11, 12}}

\* the tables handed to the batch processor
Tables == Lists(RowPool, MaxRows)

\* the texts of a cell that holds an area or a price
NumberCells == {Some(<<"-", "0", ",", "0", "8">>), Some(<<"-", " ", "5", ",", "0", "0">>), Some(<<"0">>), Some(<<"0", ",", "0", "8", "0", "0", " ", "h", "a">>), Some(<<"b", "r", "a", "k">>),
                Some(<<"1", ".", "2", ".", "3">>), Some(<<"1", "2", " ", "m", "2">>), Some(<<>>), None}

\* the base row with every such text in its total area, arable area and price cell
NumberRows ==
    {[BaseRow EXCEPT ![k] = c] : k \in {10, 11}, c \in NumberCells}
    \cup {[BaseRow EXCEPT ![12] = c] : c \in NumberCells}

\* the attribute cells: a discount phrase in each of its spellings, or none
AttributeCells == {Some(<<"o", "b", "n", "i", "zdot", "k", "a", " ", "0", "%">>), Some(<<"O", "B", "N", "I", "ZDOT", "K", "A", " ", " ", "5", "0", " ", "%">>), Some(<<"o", "b", "n", "i", "z", "k", "a", " ", "5", "%", " ", "r", "oacute", "g">>), Some(<<"o", "b", "n", "i", "zdot", "k", "a", " ", "b", "r", "a", "k">>), Some(<<"m", "e", "d", "i", "a">>),
                   Some(<<"o", "b", "n", "i", "zdot", "k", "a", " ", "3", "0", "%", " ", "o", "b", "n", "i", "zdot", "k", "a", " ", "1", "0", "%">>), Some(<<>>), None}

\* the base row with every attribute cell
AttributeRows == {[BaseRow EXCEPT ![9] = c] : c \in AttributeCells}

\* the rows handed to the record builder
BuilderRows == RowPool \cup NumberRows \cup AttributeRows

\* the most pages of an uploaded file
MaxPages == 2

\* the header row of a page's table
HeaderRow == [BaseRow EXCEPT ![1] = Some(<<"L", "p">>), ![12] = Some(CenaWywolawcza)]

\* the tables page.extract_table() returns: None, and tables of rows
PageTables ==
    {None, Some(<<>>)}
    \cup {Some(<<row>>) : row \in {BaseRow, HeaderRow, SubSeq(BaseRow, 1, 11),
                                   [BaseRow EXCEPT ![12] = None],
                                   [BaseRow EXCEPT ![1] = Some(<<"0">>)]}}
    \cup {Some(<<HeaderRow, [BaseRow EXCEPT ![1] = Some(<<"3">>)]>>),
          Some(<<[BaseRow EXCEPT ![1] = Some(<<"4">>)], [BaseRow EXCEPT ![14] = Some(Razem)]>>),
          Some(<<[BaseRow EXCEPT ![4] = None], [BaseRow EXCEPT ![1] = Some(<<"5">>)]>>)}

\* the pages: one that cannot be read, and one for each table
Pages == {[raises |-> TRUE, table |-> None]}
         \cup {[raises |-> FALSE, table |-> t] : t \in PageTables}

\* the uploaded files: one that cannot be opened, and the files of the pages
Pdfs == {[opens |-> FALSE, pages |-> <<>>]}
        \cup {[opens |-> TRUE, pages |-> ps] : ps \in Lists(Pages, MaxPages)}

-----------------------------------------------------------------------------
(* selenium_runner.py: the region of a location string, as the automation    *)
(* reads it                                                                  *)

\* get_powiat_from_polozenie: the Optional county name of a location string
get_powiat_from_polozenie(polozenie_str) ==
    IF IsNone(polozenie_str) \/ Val(polozenie_str) = <<>>
    THEN None
    ELSE LET s == Val(polozenie_str)
             i == AnchorSearch(s, 1)
             w == RunEnd(s, i + Len(Podkarpackie), SpaceChars) + 1
         IN  IF i = 0
             THEN None
             ELSE Some(strip(SubSeq(s, w, TokenEnd(s, w))))

\* parse_dzialka_info with the county looked for at the start of the string only
parse_dzialka_info_from_the_start(polozenie) ==
    IF IsNone(polozenie) \/ Val(polozenie) = <<>>
    THEN [powiat |-> None]
    ELSE LET s == Val(polozenie)
             w == RunEnd(s, 1 + Len(Podkarpackie), SpaceChars) + 1
         IN  IF ~AnchorAt(s, 1)
             THEN [powiat |-> None]
             ELSE [powiat |-> Some(strip(SubSeq(s, w, TokenEnd(s, w))))]

\* parse_dzialka_info: the 'powiat' entry of the dict it returns, None when
\* the dict has no such key
parse_dzialka_info(polozenie) ==
    IF IsNone(polozenie) \/ Val(polozenie) = <<>>
    THEN [powiat |-> None]
    ELSE LET s == Val(polozenie)
             powiat_match == AnchorSearch(s, 1)
             w == RunEnd(s, powiat_match + Len(Podkarpackie), SpaceChars) + 1
         IN  IF powiat_match = 0
             THEN [powiat |-> None]
             ELSE [powiat |-> Some(strip(SubSeq(s, w, TokenEnd(s, w))))]

-----------------------------------------------------------------------------
(* filter_logic.py: get_best_offers, and the chain of                        *)
(* geoportalbackup/filtruj_wszystko.py that it replaces.  The chain reads    *)
(* its records from przetargi.json; here they are its argument.              *)

\* get_best_offers(records), with now the value of datetime.now()
get_best_offers(recs, now) ==
    filter_records(recs, [NoFilters EXCEPT !.best_offers_only = Some(TRUE)], now)

\* 2. the auctions of Trzebownisko
trzebownisko_przetargi(przetargi) ==
    SelectSeq(przetargi, LAMBDA przetarg :
        \/ (Truthy(przetarg.miejsce) /\ Contains(Val(przetarg.miejsce), Trzebownisko))
        \/ (Truthy(przetarg.polozenie) /\ Contains(Val(przetarg.polozenie), Trzebownisko)))

\* the powiaty of the chain
powiaty == <<<<"lstroke", "a", "nacute", "c", "u", "c", "k", "i">>,
             <<"r", "o", "p", "c", "z", "y", "c", "k", "o", " ", "s", "eogonek", "d", "z", "i", "s", "z", "o", "w", "s", "k", "i">>,
             <<"r", "z", "e", "s", "z", "o", "w", "s", "k", "i">>>>

\* the nested get_powiat of the chain, the text of filter_logic.get_powiat
nested_get_powiat(polozenie_str) == get_powiat(polozenie_str)

\* 3. the auctions of the chosen powiaty
powiat_przetargi(przetargi) ==
    SelectSeq(trzebownisko_przetargi(przetargi), LAMBDA przetarg :
        LET powiat == nested_get_powiat(przetarg.polozenie)
        IN  /\ ~IsNone(przetarg.polozenie)
            /\ Truthy(powiat)
            /\ \E i \in 1..Len(powiaty) : Contains(lower(Val(powiat)), lower(powiaty[i])))

\* 4. the sales
sprzedaz_przetargi(przetargi) ==
    SelectSeq(powiat_przetargi(przetargi), LAMBDA przetarg :
        Truthy(przetarg.forma) /\ lower(Val(przetarg.forma)) = Sprzedaz)

\* MIN_POWIERZCHNIA = 0.08 ha, in hundredths of a hectare
MIN_POWIERZCHNIA == 8

\* 5. the plots of at least MIN_POWIERZCHNIA
duze_dzialki(przetargi) ==
    SelectSeq(sprzedaz_przetargi(przetargi), LAMBDA przetarg :
        /\ ~IsNone(przetarg.powierzchnia_ogolna)
        /\ Val(przetarg.powierzchnia_ogolna) >= MIN_POWIERZCHNIA)

MAX_CENA == 20000

\* the price stage with < in place of <=
tanie_dzialki_below_the_maximum(przetargi) ==
    SelectSeq(duze_dzialki(przetargi), LAMBDA przetarg :
        /\ ~IsNone(przetarg.cena_wywolawcza)
        /\ Val(przetarg.cena_wywolawcza) < MAX_CENA)

\* 6. the plots of at most MAX_CENA
tanie_dzialki(przetargi) ==
    SelectSeq(duze_dzialki(przetargi), LAMBDA przetarg :
        /\ ~IsNone(przetarg.cena_wywolawcza)
        /\ Val(przetarg.cena_wywolawcza) <= MAX_CENA)

MIN_DNI_DO_PRZETARGU == 7

\* the nested parse_date of the chain, the text of parse_auction_date
parse_date(date_string) == parse_auction_date(date_string)

\* 7. the auctions held MIN_DNI_DO_PRZETARGU days after OBECNA_DATA or later:
\* what the chain writes to przetargi_najlepsze_oferty.json
aktualne_przetargi(przetargi, OBECNA_DATA) ==
    LET DATA_GRANICZNA == PlusDays(OBECNA_DATA, MIN_DNI_DO_PRZETARGU)
    IN  SelectSeq(tanie_dzialki(przetargi), LAMBDA przetarg :
            LET data_przetargu == parse_date(przetarg.data_godzina)
            IN  /\ ~IsNone(przetarg.data_godzina)
                /\ ~IsNone(data_przetargu)
                /\ DatetimeLE(DATA_GRANICZNA, Val(data_przetargu)))

-----------------------------------------------------------------------------
(* The records of the record builder as filter_logic.py reads them: the      *)
(* filters read eight of the keys, each with dict.get, the areas in          *)
(* hundredths of a hectare and the price in whole PLN.                       *)

\* a float of whole hundredths as the number of hundredths
hundredths(x) == (x[1] * 100) \div x[2]

\* a float of a whole number as that number
whole(x) == x[1] \div x[2]

\* the record process_table_row built, as the filters read it
as_filter_record(processed_row) ==
    [miejsce |-> processed_row.miejsce,
     polozenie |-> processed_row.polozenie,
     forma |-> processed_row.forma,
     powierzchnia_ogolna |-> IF IsNone(processed_row.powierzchnia_ogolna) THEN None
                             ELSE Some(hundredths(Val(processed_row.powierzchnia_ogolna))),
     cena_wywolawcza |-> IF IsNone(processed_row.cena_wywolawcza) THEN None
                         ELSE Some(whole(Val(processed_row.cena_wywolawcza))),
     data_godzina |-> processed_row.data_godzina,
     typ_nieruchomosci |-> Some(processed_row.typ_nieruchomosci),
     obnizka |-> Some(processed_row.obnizka)]

\* the rows of the discount calls: the base row with a discount phrase in each
\* spelling, with a phrase that has no number and with no attribute text, and
\* a row of another venue whose discount is 0%
DiscountRows ==
    {[BaseRow EXCEPT ![9] = c] :
        c \in {Some(<<"o", "b", "n", "i", "zdot", "k", "a", " ", "0", "%">>),
               Some(<<"O", "B", "N", "I", "ZDOT", "K", "A", " ", " ", "5", "0", " ", "%">>),
               Some(<<"o", "b", "n", "i", "z", "k", "a", " ", "5", "%", " ", "r", "oacute", "g">>),
               Some(<<"o", "b", "n", "i", "zdot", "k", "a", " ", "b", "r", "a", "k">>),
               Some(<<>>)}}
    \cup {[BaseRow EXCEPT ![4] = Some(<<"R", "z", "e", "s", "z", "oacute", "w">>),
                          ![9] = Some(<<"o", "b", "n", "i", "zdot", "k", "a", " ", "0", "%">>)]}

DiscountTables == Lists(DiscountRows, MaxRows)

\* the filters of the discount calls: a threshold or none, alone or with a venue
DiscountConfigs ==
    {[NoFilters EXCEPT !.location = l, !.min_discount = d] :
        l \in {None, Some(<<"J", "a", "s", "i", "o", "n", "k", "a">>)},
        d \in {None, Some(0), Some(30)}}

-----------------------------------------------------------------------------
(* main.py: upload_pdf, one request per caller.  Every name upload_pdf binds *)
(* is a local of the request; the modules hold no object that a call writes. *)

\* the callers that have a request in progress at the same time
Callers == {1, 2}

\* the files the callers upload, as the records extracted from them
RequestBatches ==
    {<<RecordA, RecordB>>,
     <<RecordB>>,
     <<[RecordA EXCEPT !.miejsce = Some(<<"R", "z", "e", "s", "z", "oacute", "w">>)], RecordA>>}

\* the filters the query parameters of a request give
RequestQueries ==
    {NoFilters,
     [NoFilters EXCEPT !.best_offers_only = Some(TRUE)],
     [NoFilters EXCEPT !.location = Some(Trzebownisko)]}

\* a request that has not started
IdleRequest ==
    [pc |-> "idle", contents |-> <<>>, query |-> NoFilters, now |-> <<>>,
     processed_data |-> <<>>, filters |-> NoFilters, filtered_data |-> <<>>,
     stats |-> calculate_stats(<<>>)]

\* the filters dict as one object that every request fills and reads: the one
\* the first caller's request holds
request_filters_shared(reqs, c) == reqs[1].filters

\* the filters dict the request of caller c hands to filter_records: the dict
\* that request built
request_filters(reqs, c) == reqs[c].filters

\* filter_records(processed_data, filters) if filters else processed_data
filtered_data_of(processed, f, now) ==
    IF f = NoFilters THEN processed ELSE filter_records(processed, f, now)

\* the dict of the request after that statement
filters_of(processed, f) ==
    IF f = NoFilters THEN f ELSE filters_after(processed, f)

-----------------------------------------------------------------------------
(* The state machine: a request starts with nothing computed and makes one   *)
(* call of an operation of the core, whose arguments and result it keeps;    *)
(* filter_records is called on the records extracted from the uploaded file. *)

NoStats == calculate_stats(<<>>)

Init ==
    /\ op = "none"
    /\ records = <<>>
    /\ filters_arg = NoFilters
    /\ filters = NoFilters
    /\ current_date = [ordinal |-> Ordinal(2025, 4, 5), second |-> 0]
    /\ order = <<>>
    /\ filtered_records = <<>>
    /\ text = None
    /\ attributes = <<>>
    /\ discount = <<>>
    /\ stats = NoStats
    /\ result = None
    /\ default = None
    /\ table_data = <<>>
    /\ processed_data = <<>>
    /\ pdf = [opens |-> TRUE, pages |-> <<>>]
    /\ raised = ""
    /\ requests = [c \in Callers |-> IdleRequest]

\* upload_pdf reads the records of the uploaded file, at the time of the request
ExtractDataFromPdf ==
    /\ op = "none"
    /\ \E recs \in RecordLists, now \in UploadTimes :
        /\ op' = "extract_data_from_pdf"
        /\ records' = recs
        /\ current_date' = now
        /\ UNCHANGED <<filters_arg, filters, order, filtered_records,
                       text, attributes, discount, stats,
                       result, default, table_data, processed_data, pdf, raised, requests>>

\* filter_records(records, f) on the extracted records
FilterRecords ==
    /\ op = "extract_data_from_pdf"
    /\ \E f \in Configs :
        /\ op' = "filter_records"
        /\ filters_arg' = f
        /\ filters' = filters_after(records, f)
        /\ filtered_records' = filter_records(records, f, current_date)
        /\ UNCHANGED <<records, current_date, order, text, attributes, discount, stats,
                       result, default, table_data, processed_data, pdf, raised, requests>>

\* filter_records(records, f) on the extracted records, f asking for the preset
FilterRecordsWithPreset ==
    /\ op = "extract_data_from_pdf"
    /\ \E f \in PresetConfigs :
        /\ op' = "filter_records"
        /\ filters_arg' = f
        /\ filters' = filters_after(records, f)
        /\ filtered_records' = filter_records(records, f, current_date)
        /\ UNCHANGED <<records, current_date, order, text, attributes, discount, stats,
                       result, default, table_data, processed_data, pdf, raised, requests>>

\* filter_records(recs, f) on records and filters that differ in the area
FilterRecordsByArea ==
    /\ op = "none"
    /\ \E recs \in AreaRecordLists, f \in AreaConfigs :
        /\ op' = "filter_records"
        /\ records' = recs
        /\ filters_arg' = f
        /\ filters' = filters_after(recs, f)
        /\ filtered_records' = filter_records(recs, f, current_date)
        /\ UNCHANGED <<current_date, order, text, attributes, discount, stats,
                       result, default, table_data, processed_data, pdf, raised, requests>>

\* get_best_offers(recs) at time now
GetBestOffers ==
    /\ op = "none"
    /\ \E recs \in RecordLists, now \in UploadTimes :
        /\ op' = "get_best_offers"
        /\ records' = recs
        /\ current_date' = now
        /\ filtered_records' = get_best_offers(recs, now)
        /\ UNCHANGED <<filters_arg, filters, order, text, attributes, discount, stats,
                       result, default, table_data, processed_data, pdf, raised, requests>>

\* main() of filtruj_wszystko.py on the records of przetargi.json, at time now
FiltrujWszystko ==
    /\ op = "none"
    /\ \E przetargi \in RecordLists, now \in UploadTimes :
        /\ op' = "filtruj_wszystko"
        /\ records' = przetargi
        /\ current_date' = now
        /\ filtered_records' = aktualne_przetargi(przetargi, now)
        /\ UNCHANGED <<filters_arg, filters, order, text, attributes, discount, stats,
                       result, default, table_data, processed_data, pdf, raised, requests>>

\* filter_by_date_range(recs, min_days, max_days) at time now
FilterByDateRange ==
    /\ op = "none"
    /\ \E recs \in DateRecordLists, now \in Nows,
       min_days \in {0, 7, 10}, max_days \in {None, Some(0), Some(7), Some(10)} :
        /\ op' = "filter_by_date_range"
        /\ records' = recs
        /\ filters_arg' = [NoFilters EXCEPT !.min_days_from_now = Some(min_days),
                                            !.max_days_from_now = max_days]
        /\ filters' = filters_arg'
        /\ current_date' = now
        /\ filtered_records' = filter_by_date_range(recs, min_days, max_days, now)
        /\ UNCHANGED <<order, text, attributes, discount, stats,
                       result, default, table_data, processed_data, pdf, raised, requests>>

\* one of the three independent filters
independent_filter(name, recs, f) ==
    IF name = "location" THEN filter_by_location(recs, Val(f.location))
    ELSE IF name = "property_type" THEN filter_by_property_type(recs, Val(f.property_types))
    ELSE filter_by_discount(recs, f.min_discount)

\* the three independent filters chained in the order o
chain_independent(o, recs, f) ==
    independent_filter(o[3], independent_filter(o[2], independent_filter(o[1], recs, f), f), f)

\* a caller chains filter_by_location, filter_by_property_type and filter_by_discount
ChainIndependentFilters ==
    /\ op = "none"
    /\ \E recs \in IndependentRecordLists, o \in Orders,
       loc \in OptionValues.location, types \in OptionValues.property_types,
       min_discount \in OptionValues.min_discount \cup {None} :
        /\ op' = "chain_independent"
        /\ records' = recs
        /\ order' = o
        /\ filters_arg' = [NoFilters EXCEPT !.location = loc, !.property_types = types,
                                            !.min_discount = min_discount]
        /\ filters' = filters_arg'
        /\ filtered_records' = chain_independent(o, recs, filters_arg')
        /\ UNCHANGED <<current_date, text, attributes, discount, stats,
                       result, default, table_data, processed_data, pdf, raised, requests>>

\* calculate_stats(recs)
CalculateStats ==
    /\ op = "none"
    /\ \E recs \in StatsRecordLists :
        /\ op' = "calculate_stats"
        /\ records' = recs
        /\ stats' = calculate_stats(recs)
        /\ UNCHANGED <<filters_arg, filters, current_date, order, filtered_records,
                       text, attributes, discount,
                       result, default, table_data, processed_data, pdf, raised, requests>>

\* extract_attributes_and_discount(t)
ExtractAttributesAndDiscount ==
    /\ op = "none"
    /\ \E t \in Texts :
        /\ op' = "extract_attributes_and_discount"
        /\ text' = t
        /\ LET returned == extract_attributes_and_discount(t)
           IN  attributes' = returned[1] /\ discount' = returned[2]
        /\ UNCHANGED <<records, filters_arg, filters, current_date, order,
                       filtered_records, stats,
                       result, default, table_data, processed_data, pdf, raised, requests>>

\* filter_by_discount(recs, min_discount)
FilterByDiscount ==
    /\ op = "none"
    /\ \E recs \in DiscountRecordLists, min_discount \in Thresholds :
        /\ op' = "filter_by_discount"
        /\ records' = recs
        /\ filters_arg' = [NoFilters EXCEPT !.min_discount = min_discount]
        /\ filters' = filters_arg'
        /\ filtered_records' = filter_by_discount(recs, min_discount)
        /\ UNCHANGED <<current_date, order, text, attributes, discount, stats,
                       result, default, table_data, processed_data, pdf, raised, requests>>

\* filter_by_counties(recs, target_counties)
FilterByCounties ==
    /\ op = "none"
    /\ \E recs \in CountyRecordLists, target_counties \in TargetCounties :
        /\ op' = "filter_by_counties"
        /\ records' = recs
        /\ filters_arg' = [NoFilters EXCEPT !.counties = Some(target_counties)]
        /\ filters' = filters_arg'
        /\ filtered_records' = filter_by_counties(recs, target_counties)
        /\ UNCHANGED <<current_date, order, text, attributes, discount, stats,
                       result, default, table_data, processed_data, pdf, raised, requests>>

\* safe_float(value, default)
SafeFloat ==
    /\ op = "none"
    /\ \E value \in FloatTexts, value_default \in Defaults :
        /\ op' = "safe_float"
        /\ text' = value
        /\ default' = value_default
        /\ result' = safe_float(value, value_default)
        /\ UNCHANGED <<records, filters_arg, filters, current_date, order,
                       filtered_records, attributes, discount, stats,
                       table_data, processed_data, pdf, raised, requests>>

\* parse_auction_date(date_string)
ParseAuctionDate ==
    /\ op = "none"
    /\ \E date_string \in DateTexts :
        /\ op' = "parse_auction_date"
        /\ text' = date_string
        /\ result' = parse_auction_date(date_string)
        /\ UNCHANGED <<records, filters_arg, filters, current_date, order,
                       filtered_records, attributes, discount, stats,
                       default, table_data, processed_data, pdf, raised, requests>>

\* get_powiat(polozenie_str)
GetPowiat ==
    /\ op = "none"
    /\ \E polozenie_str \in Paths :
        /\ op' = "get_powiat"
        /\ text' = polozenie_str
        /\ result' = get_powiat(polozenie_str)
        /\ UNCHANGED <<records, filters_arg, filters, current_date, order,
                       filtered_records, attributes, discount, stats,
                       default, table_data, processed_data, pdf, raised, requests>>

\* get_powiat_from_polozenie(polozenie_str)
GetPowiatFromPolozenie ==
    /\ op = "none"
    /\ \E polozenie_str \in Paths :
        /\ op' = "get_powiat_from_polozenie"
        /\ text' = polozenie_str
        /\ result' = get_powiat_from_polozenie(polozenie_str)
        /\ UNCHANGED <<records, filters_arg, filters, current_date, order,
                       filtered_records, attributes, discount, stats,
                       default, table_data, processed_data, pdf, raised, requests>>

\* parse_dzialka_info(polozenie).get('powiat')
ParseDzialkaInfo ==
    /\ op = "none"
    /\ \E polozenie \in Paths :
        /\ op' = "parse_dzialka_info"
        /\ text' = polozenie
        /\ result' = parse_dzialka_info(polozenie).powiat
        /\ UNCHANGED <<records, filters_arg, filters, current_date, order,
                       filtered_records, attributes, discount, stats,
                       default, table_data, processed_data, pdf, raised, requests>>

\* process_table_row(row)
ProcessTableRow ==
    /\ op = "none"
    /\ \E row \in BuilderRows :
        /\ op' = "process_table_row"
        /\ table_data' = <<row>>
        /\ result' = process_table_row(row)
        /\ UNCHANGED <<records, filters_arg, filters, current_date, order,
                       filtered_records, text, attributes, discount, stats,
                       default, processed_data, pdf, raised, requests>>

\* extract_data_from_pdf, from the rows of the extracted tables on
ExtractDataFromTables ==
    /\ op = "none"
    /\ \E rows \in Tables :
        /\ op' = "extract_data_from_tables"
        /\ table_data' = rows
        /\ processed_data' = extract_data_from_tables(rows)
        /\ UNCHANGED <<records, filters_arg, filters, current_date, order,
                       filtered_records, text, attributes, discount, stats,
                       result, default, pdf, raised, requests>>

\* extract_data_from_pdf(file), the table extraction included
ExtractDataFromPdfFile ==
    /\ op = "none"
    /\ \E file \in Pdfs :
        LET outcome == extract_data_from_pdf(file)
        IN  /\ op' = "extract_data_from_pdf_file"
            /\ pdf' = file
            /\ table_data' = outcome.table_data
            /\ processed_data' = outcome.returned
            /\ raised' = outcome.raised
            /\ UNCHANGED <<records, filters_arg, filters, current_date, order,
                           filtered_records, text, attributes, discount, stats,
                           result, default, requests>>

\* caller c posts a file and its query parameters to /upload
UploadPdf(c) ==
    /\ requests[c].pc = "idle"
    /\ \E batch \in RequestBatches, q \in RequestQueries :
        requests' = [requests EXCEPT ![c] = [@ EXCEPT !.pc = "uploaded",
                                                      !.contents = batch,
                                                      !.query = q]]
    /\ UNCHANGED <<op, records, filters_arg, filters, current_date, order,
                   filtered_records, text, attributes, discount, stats,
                   result, default, table_data, processed_data, pdf, raised>>

\* the request of caller c extracts the records and builds its filters dict
RequestExtract(c) ==
    /\ requests[c].pc = "uploaded"
    /\ requests' = [requests EXCEPT ![c] =
                        [@ EXCEPT !.pc = "extracted",
                                  !.processed_data = requests[c].contents,
                                  !.filters = requests[c].query]]
    /\ UNCHANGED <<op, records, filters_arg, filters, current_date, order,
                   filtered_records, text, attributes, discount, stats,
                   result, default, table_data, processed_data, pdf, raised>>

\* the request of caller c filters its records, at the time now
RequestFilter(c) ==
    /\ requests[c].pc = "extracted"
    /\ \E now \in UploadTimes :
        LET f == request_filters(requests, c)
            processed == requests[c].processed_data
        IN  requests' = [requests EXCEPT ![c] =
                            [@ EXCEPT !.pc = "filtered",
                                      !.now = <<now>>,
                                      !.filtered_data = filtered_data_of(processed, f, now),
                                      !.filters = filters_of(processed, f)]]
    /\ UNCHANGED <<op, records, filters_arg, filters, current_date, order,
                   filtered_records, text, attributes, discount, stats,
                   result, default, table_data, processed_data, pdf, raised>>

\* the request of caller c computes the statistics and responds
RequestStats(c) ==
    /\ requests[c].pc = "filtered"
    /\ requests' = [requests EXCEPT ![c] =
                        [@ EXCEPT !.pc = "responded",
                                  !.stats = calculate_stats(requests[c].filtered_data)]]
    /\ UNCHANGED <<op, records, filters_arg, filters, current_date, order,
                   filtered_records, text, attributes, discount, stats,
                   result, default, table_data, processed_data, pdf, raised>>

\* filter_records(processed_data, f) on the records built from the rows
FilterBuiltRecords ==
    /\ op = "none"
    /\ \E rows \in DiscountTables, f \in DiscountConfigs :
        LET built == extract_data_from_tables(rows)
            recs == [i \in 1..Len(built) |-> as_filter_record(built[i])]
        IN  /\ op' = "filter_built_records"
            /\ table_data' = rows
            /\ processed_data' = built
            /\ records' = recs
            /\ filters_arg' = f
            /\ filters' = filters_after(recs, f)
            /\ filtered_records' = filter_records(recs, f, current_date)
            /\ UNCHANGED <<current_date, order, text, attributes, discount, stats,
                           result, default, pdf, raised, requests>>

\* one step of the request of some caller
UploadPdfStep == \E c \in Callers : UploadPdf(c)

RequestExtractStep == \E c \in Callers : RequestExtract(c)

RequestFilterStep == \E c \in Callers : RequestFilter(c)

RequestStatsStep == \E c \in Callers : RequestStats(c)

Next ==
    \/ ExtractDataFromPdf
    \/ FilterRecords
    \/ FilterByDateRange
    \/ ChainIndependentFilters
    \/ CalculateStats
    \/ ExtractAttributesAndDiscount
    \/ FilterByDiscount
    \/ FilterByCounties
    \/ SafeFloat
    \/ ParseAuctionDate
    \/ GetPowiat
    \/ ProcessTableRow
    \/ ExtractDataFromTables
    \/ ExtractDataFromPdfFile
    \/ FilterRecordsByArea
    \/ GetBestOffers
    \/ FiltrujWszystko
    \/ GetPowiatFromPolozenie
    \/ ParseDzialkaInfo
    \/ UploadPdfStep
    \/ RequestExtractStep
    \/ RequestFilterStep
    \/ RequestStatsStep
    \/ FilterBuiltRecords
    \/ FilterRecordsWithPreset

\* every operation of the core
Spec == Init /\ [][Next]_vars

\* the calls of filter_records on the records of an uploaded file
NextFilterRecords ==
    \/ ExtractDataFromPdf
    \/ FilterRecords

SpecFilterRecords == Init /\ [][NextFilterRecords]_vars

\* the calls of filter_records that ask for the preset
NextPreset ==
    \/ ExtractDataFromPdf
    \/ FilterRecordsWithPreset

SpecPreset == Init /\ [][NextPreset]_vars

\* the calls of filter_by_date_range
SpecDateRange == Init /\ [][FilterByDateRange]_vars

\* the chains of the independent filters
SpecIndependent == Init /\ [][ChainIndependentFilters]_vars

\* the calls of calculate_stats
SpecStats == Init /\ [][CalculateStats]_vars

\* the calls of extract_attributes_and_discount
SpecText == Init /\ [][ExtractAttributesAndDiscount]_vars

\* the calls of filter_by_discount
SpecDiscount == Init /\ [][FilterByDiscount]_vars

\* the calls of filter_by_counties
SpecCounties == Init /\ [][FilterByCounties]_vars

\* the calls of safe_float
SpecSafeFloat == Init /\ [][SafeFloat]_vars

\* the calls of parse_auction_date
SpecParseDate == Init /\ [][ParseAuctionDate]_vars

\* the calls of get_powiat
SpecPowiat == Init /\ [][GetPowiat]_vars

\* the calls of the record builder and of the batch processor
NextParser ==
    \/ ProcessTableRow
    \/ ExtractDataFromTables

SpecParser == Init /\ [][NextParser]_vars

\* the calls of filter_records on records and filters that differ in the area
SpecArea == Init /\ [][FilterRecordsByArea]_vars

\* the calls of get_best_offers and of the chain it replaces
NextBestOffers ==
    \/ GetBestOffers
    \/ FiltrujWszystko

SpecBestOffers == Init /\ [][NextBestOffers]_vars

\* the calls of the three readers of the region of a location string
NextRegion ==
    \/ GetPowiat
    \/ GetPowiatFromPolozenie
    \/ ParseDzialkaInfo

SpecRegion == Init /\ [][NextRegion]_vars

\* the calls of filter_records on the records the record builder built
SpecBuiltRecords == Init /\ [][FilterBuiltRecords]_vars

\* the requests of the callers, their steps interleaved
NextRequests ==
    \/ UploadPdfStep
    \/ RequestExtractStep
    \/ RequestFilterStep
    \/ RequestStatsStep

SpecRequests == Init /\ [][NextRequests]_vars

\* the calls of extract_data_from_pdf on an uploaded file
SpecPdf == Init /\ [][ExtractDataFromPdfFile]_vars

-----------------------------------------------------------------------------
(* Claims about filter_records, checked under SpecFilterRecords; the claim   *)
(* about the calls that ask for the preset, C2, under SpecPreset             *)

\* the configuration {best_offers_only: true}
BestOffersOnly == [NoFilters EXCEPT !.best_offers_only = Some(TRUE)]

\* whether the caller asked for the preset
AskedBestOffers == ~IsNone(filters_arg.best_offers_only) /\ Val(filters_arg.best_offers_only)

\* a record of the end-to-end example: the given area, 15000 PLN, powiat rzeszowski,
\* sale, scheduled ten days after the day of the call
IsExampleRecord(r, area) ==
    /\ r.powierzchnia_ogolna = Some(area)
    /\ r.cena_wywolawcza = Some(15000)
    /\ get_powiat(r.polozenie) = Some(<<"r", "z", "e", "s", "z", "o", "w", "s", "k", "i">>)
    /\ r.forma = Some(Sprzedaz)
    /\ parse_auction_date(r.data_godzina)
           = Some([ordinal |-> current_date.ordinal + 10, second |-> 0])

\* the call of the end-to-end example: [A, B] filtered with {best_offers_only: true}
ExampleCall ==
    /\ op = "filter_records"
    /\ filters_arg = BestOffersOnly
    /\ Len(records) = 2
    /\ IsExampleRecord(records[1], 10)
    /\ IsExampleRecord(records[2], 5)

\* C1 as stated: for records A (0.1 ha) and B (0.05 ha) of the end-to-end example,
\* filter_records([A, B], {best_offers_only: true}) returns exactly [A].
C1_AsStated == ExampleCall => filtered_records = <<records[1]>>

\* C1, amended: when the venue or the location path of A and of B contains
\* "Trzebownisko", filter_records([A, B], {best_offers_only: true}) returns exactly
\* [A]; B passes the location, county and form stages and is removed by the area
\* minimum.
C1_BestOffersExample ==
    (/\ ExampleCall
     /\ location_matches(records[1], Trzebownisko)
     /\ location_matches(records[2], Trzebownisko))
    => /\ filtered_records = <<records[1]>>
       /\ after_form(records, filters) = records
       /\ after_area(records, filters) = <<records[1]>>

C1_Witness ==
    /\ ExampleCall
    /\ location_matches(records[1], Trzebownisko)
    /\ location_matches(records[2], Trzebownisko)
    /\ filtered_records = <<records[1]>>

\* C2 as stated: two configurations that both set best_offers_only and differ in
\* the other options give the same result.
C2_AsStated ==
    (op = "filter_records" /\ AskedBestOffers)
    => \A f2 \in Configs :
           (~IsNone(f2.best_offers_only) /\ Val(f2.best_offers_only))
           => filter_records(records, f2, current_date) = filtered_records

\* C2, amended: two configurations that both set best_offers_only and differ only
\* in the values of location, counties, form, min_area, max_price and
\* min_days_from_now give the same result (max_area, min_price, max_days_from_now,
\* property_types and min_discount keep their effect).
C2_PresetOverridesItsKeys ==
    (op = "filter_records" /\ AskedBestOffers)
    => \A k \in PresetKeys : \A v \in OptionValues[k] \cup {None} :
           filter_records(records, [filters_arg EXCEPT ![k] = v], current_date)
               = filtered_records

C2_Witness ==
    /\ op = "filter_records"
    /\ AskedBestOffers
    /\ filters_arg.min_area = Some(0)
    /\ Len(records) = 2
    /\ Len(filtered_records) = 1

\* the criteria of the preset, with the literals of lines 334-339
MeetsPreset(r) ==
    /\ \/ (Truthy(r.miejsce) /\ Contains(Val(r.miejsce), Trzebownisko))
       \/ (Truthy(r.polozenie) /\ Contains(Val(r.polozenie), Trzebownisko))
    /\ ~IsNone(get_powiat(r.polozenie))
    /\ \E c \in {<<"lstroke", "a", "nacute", "c", "u", "c", "k", "i">>, <<"r", "o", "p", "c", "z", "y", "c", "k", "o", " ", "s", "eogonek", "d", "z", "i", "s", "z", "o", "w", "s", "k", "i">>, <<"r", "z", "e", "s", "z", "o", "w", "s", "k", "i">>} :
           Contains(lower(Val(get_powiat(r.polozenie))), c)
    /\ ~IsNone(r.forma) /\ lower(Val(r.forma)) = <<"s", "p", "r", "z", "e", "d", "a", "zdot">>
    /\ ~IsNone(r.powierzchnia_ogolna) /\ Val(r.powierzchnia_ogolna) >= 8
    /\ ~IsNone(r.cena_wywolawcza) /\ Val(r.cena_wywolawcza) <= 20000
    /\ ~IsNone(parse_auction_date(r.data_godzina))
    /\ DatetimeLE(PlusDays(current_date, 7), Val(parse_auction_date(r.data_godzina)))

\* C3: with best_offers_only set, the result is the one of the configuration whose
\* six preset keys hold the preset's values, whatever the caller supplied for them,
\* and every returned record meets the six preset criteria.
C3_PresetValuesUsed ==
    (op = "filter_records" /\ AskedBestOffers)
    => /\ filtered_records =
              filter_records(records,
                  [filters_arg EXCEPT !.best_offers_only = None,
                       !.location = Some(Trzebownisko),
                       !.counties = Some(<<<<"lstroke", "a", "nacute", "c", "u", "c", "k", "i">>, <<"r", "o", "p", "c", "z", "y", "c", "k", "o", " ", "s", "eogonek", "d", "z", "i", "s", "z", "o", "w", "s", "k", "i">>, <<"r", "z", "e", "s", "z", "o", "w", "s", "k", "i">>>>),
                       !.form = Some(<<"s", "p", "r", "z", "e", "d", "a", "zdot">>),
                       !.min_area = Some(8),
                       !.max_price = Some(20000),
                       !.min_days_from_now = Some(7)],
                  current_date)
       /\ \A i \in 1..Len(filtered_records) : MeetsPreset(filtered_records[i])

C3_Witness ==
    /\ op = "filter_records"
    /\ AskedBestOffers
    /\ filters_arg.location = Some(<<"J", "a", "s", "i", "o", "n", "k", "a">>)
    /\ Len(records) = 2
    /\ Len(filtered_records) = 1

\* what the stages of filter_records keep under the configuration f at time now
PassesStages(r, f, now) ==
    /\ Truthy(f.location) => location_matches(r, Val(f.location))
    /\ Truthy(f.counties) => county_matches(r, Val(f.counties))
    /\ form_matches(r, IF IsNone(f.form) THEN <<"s", "p", "r", "z", "e", "d", "a", "zdot">> ELSE Val(f.form))
    /\ ~IsNone(f.min_area) =>
           /\ ~IsNone(r.powierzchnia_ogolna)
           /\ Val(r.powierzchnia_ogolna) >= Val(f.min_area)
           /\ ~IsNone(f.max_area) => Val(r.powierzchnia_ogolna) <= Val(f.max_area)
    /\ ~IsNone(f.min_price) =>
           ~IsNone(r.cena_wywolawcza) /\ Val(r.cena_wywolawcza) >= Val(f.min_price)
    /\ ~IsNone(f.max_price) =>
           ~IsNone(r.cena_wywolawcza) /\ Val(r.cena_wywolawcza) <= Val(f.max_price)
    /\ date_in_range(r,
           PlusDays(now, IF IsNone(f.min_days_from_now) THEN 7 ELSE Val(f.min_days_from_now)),
           max_date_of(now, f.max_days_from_now))
    /\ Truthy(f.property_types) => property_type_matches(r, Val(f.property_types))
    /\ ~IsNone(f.min_discount) => discount_matches(r, Val(f.min_discount))

\* C8: filter_records returns exactly the input records, in input order, that pass
\* every enabled stage; the form and date-window stages are always enabled (form
\* defaults to the sale form, min_days_from_now to 7), location, counties and
\* property_types are enabled when supplied and not empty, the area stage when
\* min_area is supplied, the price stage when a bound is supplied, the discount
\* stage when min_discount is supplied; an empty input yields an empty result.
C8_ConjunctionOfStages ==
    (op = "filter_records")
    => /\ filtered_records =
              SelectSeq(records, LAMBDA r : PassesStages(r, filters, current_date))
       /\ records = <<>> => filtered_records = <<>>

C8_Witness ==
    /\ op = "filter_records"
    /\ ~IsNone(filters_arg.min_discount)
    /\ IsNone(filters_arg.form)
    /\ Len(records) = 2
    /\ records[1] # records[2]
    /\ filtered_records = <<records[2]>>

\* C9: filtering the result of filter_records again, with the same configuration
\* at the same time, returns it unchanged.
C9_Idempotent ==
    (op = "filter_records")
    => filter_records(filtered_records, filters_arg, current_date) = filtered_records

C9_Witness ==
    /\ op = "filter_records"
    /\ AskedBestOffers
    /\ Len(records) = 2
    /\ Len(filtered_records) = 1

RECURSIVE IsSubsequence(_, _)
\* whether a is b with some elements left out: nothing added, duplicated or reordered
IsSubsequence(a, b) ==
    IF a = <<>> THEN TRUE
    ELSE IF b = <<>> THEN FALSE
    ELSE IF a[1] = b[1] THEN IsSubsequence(Tail(a), Tail(b))
    ELSE IsSubsequence(a, Tail(b))

\* C11: every stage of filter_records (location, counties, form, area, price, date
\* window, property type, discount) returns a subsequence of the list it is given,
\* and so does filter_records as a whole: no record is added, duplicated or
\* reordered.
C11_Subsequence ==
    (op = "filter_records")
    => LET located == after_location(records, filters)
           in_counties == filter_by_counties(located, Val(filters.counties))
           counted == IF Truthy(filters.counties) THEN in_counties ELSE located
           formed == filter_by_form(counted, IF IsNone(filters.form) THEN Sprzedaz
                                             ELSE Val(filters.form))
           in_area == filter_by_area(formed, Val(filters.min_area), filters.max_area)
           sized == IF ~IsNone(filters.min_area) THEN in_area ELSE formed
           priced == filter_by_price(sized, filters.min_price, filters.max_price)
           dated == filter_by_date_range(priced,
                        IF IsNone(filters.min_days_from_now) THEN 7
                        ELSE Val(filters.min_days_from_now),
                        filters.max_days_from_now, current_date)
           in_types == filter_by_property_type(dated, Val(filters.property_types))
           typed == IF Truthy(filters.property_types) THEN in_types ELSE dated
           discounted == filter_by_discount(typed, filters.min_discount)
       IN  /\ IsSubsequence(filtered_records, records)
           /\ IsSubsequence(located, records)
           /\ IsSubsequence(counted, located)
           /\ IsSubsequence(formed, counted)
           /\ IsSubsequence(sized, formed)
           /\ IsSubsequence(priced, sized)
           /\ IsSubsequence(dated, priced)
           /\ IsSubsequence(typed, dated)
           /\ IsSubsequence(discounted, typed)

\* two different records are given with a property-type set and both are returned
C11_Witness ==
    /\ op = "filter_records"
    /\ Truthy(filters_arg.property_types)
    /\ Len(records) = 2
    /\ records[1] # records[2]
    /\ filtered_records = records

\* C20: when the configuration names neither form nor min_days_from_now (the empty
\* configuration and no configuration included), every record filter_records
\* returns has a form equal to "sprzedaz" (z with dot) whatever the case of its
\* letters, and a scheduled date that parses and is at least 7 days after now;
\* a record with no form, or with no date or an unparsable one, is not returned.
C20_DefaultsAlwaysApplied ==
    (/\ op = "filter_records"
     /\ IsNone(filters_arg.form)
     /\ IsNone(filters_arg.min_days_from_now))
    => \A i \in 1..Len(filtered_records) :
           LET r == filtered_records[i]
               scheduled == parse_auction_date(r.data_godzina)
           IN  /\ ~IsNone(r.forma)
               /\ lower(Val(r.forma)) = <<"s", "p", "r", "z", "e", "d", "a", "zdot">>
               /\ ~IsNone(scheduled)
               /\ DatetimeLE(PlusDays(current_date, 7), Val(scheduled))

\* the empty configuration: of two records that differ, one is returned and the
\* other, scheduled less than 7 days after now, is not
C20_Witness ==
    /\ op = "filter_records"
    /\ filters_arg = NoFilters
    /\ Len(records) = 2
    /\ Len(filtered_records) = 1
    /\ ~IsNone(parse_auction_date(records[2].data_godzina))
    /\ filtered_records = <<records[1]>>
    /\ records[1] # records[2]

-----------------------------------------------------------------------------
(* Claims about the independent filters, checked under SpecIndependent *)

\* C10: chaining filter_by_location, filter_by_property_type and
\* filter_by_discount in any order returns the same sequence of records.
C10_OrderInvariant ==
    (op = "chain_independent")
    => \A o \in Orders : chain_independent(o, records, filters_arg) = filtered_records

C10_Witness ==
    /\ op = "chain_independent"
    /\ order = <<"discount", "property_type", "location">>
    /\ filters_arg.location = Some(Trzebownisko)
    /\ filters_arg.min_discount = Some(30)
    /\ Len(records) = 2
    /\ Len(filter_by_discount(records, filters_arg.min_discount)) = 2
    /\ Len(filtered_records) = 1

-----------------------------------------------------------------------------
(* Claims about filter_by_date_range, checked under SpecDateRange *)

\* the calendar day of a record's scheduled date, when it parses
AuctionDay(r) == Val(parse_auction_date(r.data_godzina)).ordinal

\* C4 as stated, for the calls without an upper bound: a record is kept exactly
\* when its scheduled date parses and its calendar date is not before today's
\* calendar date plus min_days_from_now, whatever the time of day of the call.
C4_AsStated ==
    (op = "filter_by_date_range" /\ IsNone(filters_arg.max_days_from_now))
    => filtered_records =
           SelectSeq(records, LAMBDA r :
               /\ ~IsNone(parse_auction_date(r.data_godzina))
               /\ AuctionDay(r) >= current_date.ordinal + Val(filters_arg.min_days_from_now))

\* C5 as stated: when max_days_from_now is supplied (0 included), every returned
\* record is scheduled no later than now + max_days_from_now.
C5_AsStated ==
    (op = "filter_by_date_range" /\ ~IsNone(filters_arg.max_days_from_now))
    => \A i \in 1..Len(filtered_records) :
           DatetimeLE(Val(parse_auction_date(filtered_records[i].data_godzina)),
                      PlusDays(current_date, Val(filters_arg.max_days_from_now)))

-----------------------------------------------------------------------------
(* Claims about calculate_stats, checked under SpecStats *)

\* the records C7 averages over: area > 0 and a price that is present
Qualifies(r) ==
    /\ ~IsNone(r.powierzchnia_ogolna) /\ Val(r.powierzchnia_ogolna) > 0
    /\ ~IsNone(r.cena_wywolawcza)

\* C7 as stated: avg_price_per_hectare is the mean of price / area over the records
\* with area > 0 and a present price, a price of 0 included; 0 when there is none.
C7_AsStated ==
    (op = "calculate_stats")
    => stats.avg_price_per_hectare =
           LET qualifying == SelectSeq(records, Qualifies)
               ratios == [i \in 1..Len(qualifying) |->
                             Frac(Val(qualifying[i].cena_wywolawcza) * 100,
                                  Val(qualifying[i].powierzchnia_ogolna))]
           IN  IF qualifying = <<>> THEN Frac(0, 1)
               ELSE Frac(FracSum(ratios)[1], FracSum(ratios)[2] * Len(qualifying))

-----------------------------------------------------------------------------
(* Claims about extract_attributes_and_discount, checked under SpecText *)

ExampleText == <<"d", "u", "zdot", "a", " ", "d", "z", "i", "a", "lstroke", "k", "a", " ", "o", "b", "n", "i", "zdot", "k", "a", " ", "3", "0", "%", " ", "n", "a", "r", "o", "zdot", "n", "a">>

\* C6 as stated: the example text yields ("duza dzialka narozna" with single
\* spaces, "obnizka 30%").
C6_AsStated ==
    (op = "extract_attributes_and_discount" /\ text = Some(ExampleText))
    => /\ attributes = <<"d", "u", "zdot", "a", " ", "d", "z", "i", "a", "lstroke", "k", "a", " ", "n", "a", "r", "o", "zdot", "n", "a">>
       /\ discount = <<"o", "b", "n", "i", "zdot", "k", "a", " ", "3", "0", "%">>

\* a discount phrase: the word, whitespace, digits, optional whitespace, "%"
IsDiscountPhrase(p) ==
    /\ Len(p) >= 10
    /\ SubSeq(p, 1, 7) \in {<<"o", "b", "n", "i", "zdot", "k", "a">>, <<"o", "b", "n", "i", "z", "k", "a">>}
    /\ p[Len(p)] = "%"
    /\ \E a \in 9..(Len(p) - 1) : \E b \in a..(Len(p) - 1) :
           /\ \A k \in 8..(a - 1) : p[k] \in {" ", "\n", "\t", "\r"}
           /\ \A k \in a..b : p[k] \in DigitChars
           /\ \A k \in (b + 1)..(Len(p) - 1) : p[k] \in {" ", "\n", "\t", "\r"}

\* where the discount phrases of the lowercased text lie
PhraseSpans(low) ==
    {sp \in (1..Len(low)) \X (1..Len(low)) :
        /\ sp[2] >= sp[1] + 9
        /\ low[sp[1]] = "o"
        /\ low[sp[2]] = "%"
        /\ IsDiscountPhrase(SubSeq(low, sp[1], sp[2]))}

RECURSIVE KeepAt(_, _, _)
\* the characters of s from position k on whose positions are in K
KeepAt(s, k, K) ==
    IF k > Len(s) THEN <<>>
    ELSE (IF k \in K THEN <<s[k]>> ELSE <<>>) \o KeepAt(s, k + 1, K)

\* u without its leading and trailing whitespace
IsTrimmed(a, u) ==
    \E i \in 0..Len(u) : \E j \in i..Len(u) :
        /\ a = SubSeq(u, i + 1, j)
        /\ \A k \in 1..i : u[k] \in {" ", "\n", "\t", "\r"}
        /\ \A k \in (j + 1)..Len(u) : u[k] \in {" ", "\n", "\t", "\r"}
        /\ a # <<>> => (a[1] \notin {" ", "\n", "\t", "\r"}
                        /\ a[Len(a)] \notin {" ", "\n", "\t", "\r"})

\* C6, amended: "duza dzialka obnizka 30% narozna" yields ("duza dzialka  narozna"
\* with the two spaces that surrounded the phrase, "obnizka 30%").  In general,
\* when the lowercased text holds a phrase obni[zdot z]ka, whitespace, digits,
\* optional whitespace, "%", the first component is the text with every such
\* phrase removed and the whitespace at its two ends trimmed (whitespace inside is
\* kept), and the second is "obnizka N%" for the digits N of the leftmost phrase;
\* otherwise the result is (trimmed text, ""); an absent or empty text yields
\* ("", "").
C6_SplitAttributesAndDiscount ==
    (op = "extract_attributes_and_discount")
    => IF IsNone(text) \/ Val(text) = <<>>
       THEN attributes = <<>> /\ discount = <<>>
       ELSE LET low == lower(Val(text))
                spans == PhraseSpans(low)
                first == CHOOSE sp \in spans : \A other \in spans : sp[1] <= other[1]
                outside == {k \in 1..Len(low) :
                               \A sp \in spans : k < sp[1] \/ k > sp[2]}
            IN  /\ text = Some(ExampleText) =>
                       /\ attributes = <<"d", "u", "zdot", "a", " ", "d", "z", "i", "a", "lstroke", "k", "a", " ", " ", "n", "a", "r", "o", "zdot", "n", "a">>
                       /\ discount = <<"o", "b", "n", "i", "zdot", "k", "a", " ", "3", "0", "%">>
                /\ spans = {} =>
                       /\ IsTrimmed(attributes, Val(text))
                       /\ discount = <<>>
                /\ spans # {} =>
                       /\ IsTrimmed(attributes, KeepAt(Val(text), 1, outside))
                       /\ discount = <<"o", "b", "n", "i", "zdot", "k", "a", " ">>
                              \o SelectSeq(SubSeq(low, first[1], first[2]),
                                           LAMBDA c : c \in DigitChars)
                              \o <<"%">>

C6_Witness ==
    /\ op = "extract_attributes_and_discount"
    /\ text = Some(ExampleText)
    /\ discount = <<"o", "b", "n", "i", "zdot", "k", "a", " ", "3", "0", "%">>

-----------------------------------------------------------------------------
(* Claims about filter_by_discount, checked under SpecDiscount *)

\* the positions of the decimal digits of a text
DigitPositions(s) == {i \in 1..Len(s) : s[i] \in DigitChars}

\* the integer a discount text holds: its first unbroken run of decimal digits
ExtractedInteger(s) ==
    LET first == CHOOSE i \in DigitPositions(s) : \A j \in DigitPositions(s) : i <= j
        last == CHOOSE j \in first..Len(s) :
                    /\ \A k \in first..j : k \in DigitPositions(s)
                    /\ (j + 1) \notin DigitPositions(s)
        digit(k) == CHOOSE d \in 0..9 : Digits[d + 1] = s[k]
        upto[k \in (first - 1)..last] ==
            IF k < first THEN 0 ELSE 10 * upto[k - 1] + digit(k)
    IN  upto[last]

\* whether the discount filter with threshold t is to keep the record
KeptByThreshold(r, t) ==
    IF ~IsNone(r.obnizka) /\ Val(r.obnizka) # <<>>
    THEN /\ DigitPositions(Val(r.obnizka)) # {}
         /\ ExtractedInteger(Val(r.obnizka)) >= t
    ELSE t = 0

\* C18: with no threshold filter_by_discount returns all the records unchanged;
\* with a threshold t it keeps, in order, the records with a discount text whose
\* extracted integer is at least t and, when t = 0 only, the records with no
\* discount text.
C18_DiscountThreshold ==
    (op = "filter_by_discount")
    => IF IsNone(filters_arg.min_discount)
       THEN filtered_records = records
       ELSE filtered_records =
                SelectSeq(records, LAMBDA r : KeptByThreshold(r, Val(filters_arg.min_discount)))

\* threshold 30: a record at 30% is kept, a record with no discount text is not
C18_Witness ==
    /\ op = "filter_by_discount"
    /\ filters_arg.min_discount = Some(30)
    /\ Len(records) = 2
    /\ IsNone(records[1].obnizka)
    /\ records[2].obnizka = Some(<<"o", "b", "n", "i", "zdot", "k", "a", " ", "3", "0", "%">>)
    /\ filtered_records = <<records[2]>>

-----------------------------------------------------------------------------
(* Claims about filter_by_counties, checked under SpecCounties *)

\* whether t occurs in s as a run of adjacent characters
IsSubstring(t, s) ==
    \E start \in 1..(Len(s) + 1) :
        /\ start + Len(t) - 1 <= Len(s)
        /\ \A k \in 1..Len(t) : s[start + k - 1] = t[k]

\* whether the counties filter with the given targets is to keep the record
KeptByCounties(r, targets) ==
    /\ ~IsNone(get_powiat(r.polozenie))
    /\ \E i \in 1..Len(targets) :
           IsSubstring(lower(targets[i]), lower(Val(get_powiat(r.polozenie))))

\* C19: filter_by_counties keeps, in order, exactly the records whose location path
\* resolves to a region by get_powiat and for which some target name, lowercased,
\* is a substring of the region name, lowercased; a record with no location path
\* or with no resolvable region is left out.
C19_RegionSet ==
    (op = "filter_by_counties")
    => /\ filtered_records =
              SelectSeq(records, LAMBDA r : KeptByCounties(r, Val(filters_arg.counties)))
       /\ \A i \in 1..Len(filtered_records) :
              /\ Truthy(filtered_records[i].polozenie)
              /\ ~IsNone(get_powiat(filtered_records[i].polozenie))

\* a target that is a part of the region name keeps the record of that region
\* and leaves out a record with no location path
C19_Witness ==
    /\ op = "filter_by_counties"
    /\ filters_arg.counties
           = Some(<<<<"r", "z", "e", "s", "z">>, <<"c", "h", "e", "lstroke", "m">>>>)
    /\ Len(records) = 2
    /\ IsNone(records[1].polozenie)
    /\ filtered_records = <<records[2]>>
    /\ get_powiat(records[2].polozenie) = Some(<<"r", "z", "e", "s", "z", "o", "w", "s", "k", "i">>)

-----------------------------------------------------------------------------
(* Claims about safe_float, checked under SpecSafeFloat *)

\* the positions of the characters that survive: digits, ".", "-" and the ","
\* that is mapped to "."
Surviving(s) == {i \in 1..Len(s) : s[i] \in DigitChars \cup {".", ",", "-"}}

\* the remainder: the surviving characters in order, "," read as "."
Remainder(s) ==
    [k \in 1..Cardinality(Surviving(s)) |->
        LET i == CHOOSE j \in Surviving(s) :
                     Cardinality({h \in Surviving(s) : h <= j}) = k
        IN  IF s[i] = "," THEN "." ELSE s[i]]

\* a numeric literal: digits, at most one ".", a "-" in front only, at least one digit
IsNumericLiteral(r) ==
    /\ \E i \in 1..Len(r) : r[i] \in DigitChars
    /\ \A i \in 1..Len(r) : r[i] = "-" => i = 1
    /\ Cardinality({i \in 1..Len(r) : r[i] = "."}) <= 1

\* the number a numeric literal denotes, as a fraction in lowest terms
NumberOf(r) ==
    LET digit_at == {i \in 1..Len(r) : r[i] \in DigitChars}
        decimals == Cardinality({i \in digit_at : \E p \in 1..i : r[p] = "."})
        digit(i) == CHOOSE d \in 0..9 : Digits[d + 1] = r[i]
        upto[i \in 0..Len(r)] ==
            IF i = 0 THEN 0
            ELSE IF i \in digit_at THEN 10 * upto[i - 1] + digit(i)
            ELSE upto[i - 1]
    IN  Frac(IF r[1] = "-" THEN 0 - upto[Len(r)] ELSE upto[Len(r)], Pow10(decimals))

\* C15: safe_float returns the default when the input is absent, when nothing is
\* left after mapping "," to "." and removing every character other than digits,
\* "." and "-", or when what is left is not a numeric literal ("N/A", "-", "1.2.3");
\* otherwise it returns the number what is left denotes.  No call raises: the only
\* exception of the body, float()'s ValueError, is caught.
C15_NormalizeNumber ==
    (op = "safe_float")
    => /\ result =
              IF IsNone(text) THEN default
              ELSE IF Remainder(Val(text)) = <<>> THEN default
              ELSE IF ~IsNumericLiteral(Remainder(Val(text))) THEN default
              ELSE Some(NumberOf(Remainder(Val(text))))
       /\ text \in {Some(<<"N", "/", "A">>), Some(<<"-">>), Some(<<"1", ".", "2", ".", "3">>)} => result = default

\* "-12,0800 ha" is read as -12.08 = -302/25
C15_Witness ==
    /\ op = "safe_float"
    /\ text = Some(<<"-", "1", "2", ",", "0", "8", "0", "0", " ", "h", "a">>)
    /\ default = None
    /\ result = Some(<<0 - 302, 25>>)

-----------------------------------------------------------------------------
(* Claims about parse_auction_date, checked under SpecParseDate *)

\* the text before the first line break
FirstLine(s) ==
    LET breaks == {i \in 1..Len(s) : s[i] = "\n"}
    IN  IF breaks = {} THEN s
        ELSE SubSeq(s, 1, (CHOOSE i \in breaks : \A j \in breaks : i <= j) - 1)

\* the text without the whitespace at its two ends
Trimmed(s) ==
    LET inked == {i \in 1..Len(s) : s[i] \notin SpaceChars}
    IN  IF inked = {} THEN <<>>
        ELSE SubSeq(s, CHOOSE i \in inked : \A j \in inked : i <= j,
                       CHOOSE i \in inked : \A j \in inked : i >= j)

\* the days of each month of the Gregorian calendar
MonthLengths(y) ==
    <<31, IF (y % 4 = 0 /\ y % 100 # 0) \/ y % 400 = 0 THEN 29 ELSE 28,
      31, 30, 31, 30, 31, 31, 30, 31, 30, 31>>

\* whether the line is three "."-separated integers (as int() reads them) that form
\* a day.month.year of the calendar
IsDayMonthYear(line) ==
    LET dots == {i \in 1..Len(line) : line[i] = "."}
        first == CHOOSE i \in dots : \A j \in dots : i <= j
        second == CHOOSE i \in dots : \A j \in dots : i >= j
        d == SubSeq(line, 1, first - 1)
        m == SubSeq(line, first + 1, second - 1)
        y == SubSeq(line, second + 1, Len(line))
    IN  /\ Cardinality(dots) = 2
        /\ IntOk(d) /\ IntOk(m) /\ IntOk(y)
        /\ IntValue(y) \in 1..9999
        /\ IntValue(m) \in 1..12
        /\ IntValue(d) \in 1..MonthLengths(IntValue(y))[IntValue(m)]

\* the example of the claim: "15.04.2025\n9:00" gives 2025-04-15, time discarded
ExampleDateParsed ==
    text = Some(<<"1", "5", ".", "0", "4", ".", "2", "0", "2", "5", "\n", "9", ":", "0", "0">>)
    => result = Some([ordinal |-> Ordinal(2025, 4, 15), second |-> 0])

\* C16 as stated: the example gives 2025-04-15 and every input whose first line is
\* not three "."-separated integers forming a valid day.month.year gives None.
C16_AsStated ==
    (op = "parse_auction_date")
    => /\ ExampleDateParsed
       /\ (IsNone(text) \/ ~IsDayMonthYear(FirstLine(Val(text)))) => IsNone(result)

\* C16, amended: the example gives 2025-04-15 at midnight; every input that is
\* absent, or whose first line after the whitespace at the two ends of the input
\* is removed is not three "."-separated integers forming a valid day.month.year,
\* gives None; every other input gives a date at midnight.
C16_ParseScheduledDate ==
    (op = "parse_auction_date")
    => /\ ExampleDateParsed
       /\ (IsNone(text) \/ ~IsDayMonthYear(FirstLine(Trimmed(Val(text)))))
              => IsNone(result)
       /\ ~IsNone(result) => Val(result).second = 0

\* 31.04.2025 is not a day of the calendar: None
C16_Witness ==
    /\ op = "parse_auction_date"
    /\ text = Some(<<"3", "1", ".", "0", "4", ".", "2", "0", "2", "5", "\n", "9", ":", "0", "0">>)
    /\ IsNone(result)

-----------------------------------------------------------------------------
(* Claims about get_powiat, checked under SpecPowiat *)

\* the positions at which the literal "podkarpackie/" occurs in the path
AnchorPositions(s) ==
    {i \in 1..Len(s) :
        /\ i + 12 <= Len(s)
        /\ \A k \in 1..13 : s[i + k - 1] = Podkarpackie[k]}

\* the first position after the anchor at i that holds no whitespace
AfterAnchor(s, i) ==
    CHOOSE w \in (i + 13)..(Len(s) + 1) :
        /\ \A k \in (i + 13)..(w - 1) : s[k] \in SpaceChars
        /\ w <= Len(s) => s[w] \notin SpaceChars

\* the anchors that a word character follows, whitespace apart
FollowedAnchors(s) ==
    {i \in AnchorPositions(s) :
        AfterAnchor(s, i) <= Len(s) /\ s[AfterAnchor(s, i)] \in WordChars}

\* the characters of a region token: word characters joined by hyphens or spaces
TokenChars == WordChars \cup SpaceChars \cup {"-"}

\* the end of the region token that starts at w: the last word character that
\* only token characters separate from w
RegionEnd(s, w) ==
    CHOOSE e \in w..Len(s) :
        /\ s[e] \in WordChars
        /\ \A k \in w..e : s[k] \in TokenChars
        /\ \A f \in (e + 1)..Len(s) :
               ~(s[f] \in WordChars /\ \A k \in w..f : s[k] \in TokenChars)

\* C17: get_powiat returns "rzeszowski" for
\* "podkarpackie/rzeszowski/Trzebownica/Obr1/123"; it returns None when the path is
\* absent or empty or does not hold the literal "podkarpackie/"; and when the
\* literal is followed by a word character (whitespace apart), it returns the token
\* of word characters joined by hyphens or spaces that follows the first such
\* occurrence, with no whitespace at its ends.
C17_ExtractRegion ==
    (op = "get_powiat")
    => /\ text = Some(Podkarpackie \o <<"r", "z", "e", "s", "z", "o", "w", "s", "k", "i", "/", "T", "r", "z", "e", "b", "o", "w", "n", "i", "c", "a", "/", "O", "b", "r", "1", "/", "1", "2", "3">>)
              => result = Some(<<"r", "z", "e", "s", "z", "o", "w", "s", "k", "i">>)
       /\ (IsNone(text) \/ Val(text) = <<>> \/ AnchorPositions(Val(text)) = {})
              => IsNone(result)
       /\ (~IsNone(text) /\ FollowedAnchors(Val(text)) # {})
              => LET s == Val(text)
                     i == CHOOSE a \in FollowedAnchors(s) :
                              \A b \in FollowedAnchors(s) : a <= b
                     w == AfterAnchor(s, i)
                 IN  /\ result = Some(SubSeq(s, w, RegionEnd(s, w)))
                     /\ Val(result)[1] \notin SpaceChars
                     /\ Val(result)[Len(Val(result))] \notin SpaceChars

\* a region of two words joined by a hyphen, after a first anchor that no token
\* follows
C17_Witness ==
    /\ op = "get_powiat"
    /\ text = Some(<<"p", "o", "d", "k", "a", "r", "p", "a", "c", "k", "i", "e", "/", "/", "p", "o", "d", "k", "a", "r", "p", "a", "c", "k", "i", "e", "/", " ", "r", "o", "p", "c", "z", "y", "c", "k", "o", "-", "s", "eogonek", "d", "z", "i", "s", "z", "o", "w", "s", "k", "i", "/", "T", "r", "z", "e", "b", "o", "w", "n", "i", "c", "a", "/", "O", "b", "r", "1", "/", "1", "2", "3">>)
    /\ result = Some(<<"r", "o", "p", "c", "z", "y", "c", "k", "o", "-", "s", "eogonek", "d", "z", "i", "s", "z", "o", "w", "s", "k", "i">>)

-----------------------------------------------------------------------------
(* Rows of insufficient width *)

\* the rows of a table that have at least twelve cells
WideRows(rows) == SelectSeq(rows, LAMBDA row : Len(row) >= 12)

\* C12: a raw row of fewer than 12 cells yields no record from the record
\* builder, and the output of the batch processor holds no more records
\* than the table has rows of at least 12 cells, each of them the record of
\* such a row
C12_NarrowRowsYieldNothing ==
    /\ op = "process_table_row" /\ Len(table_data[1]) < 12 => result = None
    /\ op = "extract_data_from_tables" =>
           /\ Len(processed_data) <= Len(WideRows(table_data))
           /\ \A i \in 1..Len(processed_data) :
                  \E j \in 1..Len(table_data) :
                      /\ Len(table_data[j]) >= 12
                      /\ process_table_row(table_data[j]) = Some(processed_data[i])

\* a table of an eleven-cell row with all required cells and a full row, of
\* which only the full row became a record
C12_Witness ==
    /\ op = "extract_data_from_tables"
    /\ table_data = <<SubSeq(BaseRow, 1, 11), BaseRow>>
    /\ Len(processed_data) = 1
    /\ processed_data[1].uwagi = BaseRow[14]

-----------------------------------------------------------------------------
(* The validity of the records *)

IsPositiveInteger(o) == o # None /\ Val(o) \in Nat /\ Val(o) > 0

IsNonEmptyText(o) == o # None /\ Len(Val(o)) > 0

\* the three required fields of a record
IsValidRecord(rec) ==
    /\ IsPositiveInteger(rec.lp)
    /\ IsNonEmptyText(rec.data_godzina)
    /\ IsNonEmptyText(rec.miejsce)

\* whether the k-th cell of the row is missing, None or the empty text
AbsentOrEmpty(row, k) == Len(row) < k \/ row[k] = None \/ row[k] = Some(<<>>)

\* whether the text, trimmed, begins with a decimal digit
BeginsWithDigit(s) == Trimmed(s) # <<>> /\ Trimmed(s)[1] \in DigitChars

\* whether the row lacks a required field: a sequence number that is absent,
\* empty, not numeric or 0, or an absent or empty date or venue
LacksRequiredField(row) ==
    \/ AbsentOrEmpty(row, 1)
    \/ ~BeginsWithDigit(Val(row[1]))
    \/ ExtractedInteger(Trimmed(Val(row[1]))) = 0
    \/ AbsentOrEmpty(row, 3)
    \/ AbsentOrEmpty(row, 4)

\* C13: every record the record builder or the batch processor produces has
\* a positive integer lp, a non-empty data_godzina and a non-empty miejsce,
\* and a row whose sequence number, date or venue is absent or empty (a
\* sequence number that is not numeric or is 0 included) yields no record
C13_RecordsAreValid ==
    /\ op = "process_table_row" =>
           /\ result # None => IsValidRecord(Val(result))
           /\ LacksRequiredField(table_data[1]) => result = None
    /\ op = "extract_data_from_tables" =>
           /\ \A i \in 1..Len(processed_data) : IsValidRecord(processed_data[i])
           /\ Len(processed_data)
                  <= Len(SelectSeq(table_data, LAMBDA row : ~LacksRequiredField(row)))

\* the full row with the sequence number 0, of which no record was built
C13_Witness ==
    /\ op = "process_table_row"
    /\ table_data = <<[BaseRow EXCEPT ![1] = Some(<<"0">>)]>>
    /\ result = None

-----------------------------------------------------------------------------
(* The order of the batch *)

\* whether a cell of the row holds the token of the summary line
HasAggregateToken(row) ==
    \E i \in 1..Len(row) : row[i] # None /\ IsSubstring(Razem, Val(row[i]))

\* the rows the batch processor is to keep
Survives(row) ==
    /\ ~HasAggregateToken(row)
    /\ Len(row) >= 12
    /\ ~LacksRequiredField(row)

\* C14: the records the batch processor returns are, one for one and in the
\* order of the table, the records built from the rows that hold no "Razem"
\* in any cell, have at least 12 cells and have their required fields
C14_RowOrderPreserved ==
    op = "extract_data_from_tables" =>
        LET surviving == SelectSeq(table_data, Survives)
        IN  /\ Len(processed_data) = Len(surviving)
            /\ \A k \in 1..Len(surviving) :
                   process_table_row(surviving[k]) = Some(processed_data[k])

\* a table of two different surviving rows, whose records come out in the
\* order of the rows
C14_Witness ==
    /\ op = "extract_data_from_tables"
    /\ table_data = <<[BaseRow EXCEPT ![1] = Some(<<"0", "0", "7">>)], BaseRow>>
    /\ Len(processed_data) = 2
    /\ processed_data[1].lp = Some(7)
    /\ processed_data[2].lp = Some(1)

-----------------------------------------------------------------------------
(* The statistics of a collection *)

\* the positions of the records whose total area is present
WithArea(recs) == {i \in 1..Len(recs) : recs[i].powierzchnia_ogolna # None}

\* the positions of the records whose starting price is present
WithPrice(recs) == {i \in 1..Len(recs) : recs[i].cena_wywolawcza # None}

RECURSIVE TotalOver(_, _)
\* the total of the values v[i] over the positions i of I
TotalOver(v, I) ==
    IF I = {} THEN 0
    ELSE LET i == CHOOSE j \in I : TRUE
         IN  v[i] + TotalOver(v, I \ {i})

\* whether the fraction q is total / (unit * count)
IsQuotient(q, total, unit, count) == q[2] > 0 /\ q[1] * unit * count = q[2] * total

\* C21: calculate_stats of an empty collection has count 0 and 0 in every
\* numeric field; of a non-empty one, count is its size, and the average
\* area, the average price, the least and the greatest price are 0 when no
\* record has the value present and otherwise the mean, the least and the
\* greatest of the present values only
C21_Statistics ==
    op = "calculate_stats" =>
        LET A == WithArea(records)
            P == WithPrice(records)
            price(i) == Val(records[i].cena_wywolawcza)
        IN  /\ stats.count = Len(records)
            /\ records = <<>> =>
                   /\ stats.avg_area[1] = 0 /\ stats.avg_price[1] = 0
                   /\ stats.min_price = 0 /\ stats.max_price = 0
                   /\ stats.avg_price_per_hectare[1] = 0
            /\ IF A = {} THEN stats.avg_area[1] = 0
               ELSE IsQuotient(stats.avg_area,
                               TotalOver([i \in A |-> Val(records[i].powierzchnia_ogolna)], A),
                               100, Cardinality(A))
            /\ IF P = {}
               THEN stats.avg_price[1] = 0 /\ stats.min_price = 0 /\ stats.max_price = 0
               ELSE /\ IsQuotient(stats.avg_price,
                                  TotalOver([i \in P |-> price(i)], P),
                                  1, Cardinality(P))
                    /\ \E i \in P : stats.min_price = price(i)
                    /\ \A i \in P : stats.min_price <= price(i)
                    /\ \E i \in P : stats.max_price = price(i)
                    /\ \A i \in P : stats.max_price >= price(i)

\* two records, one of them with an area of 0.05 ha and none with a price:
\* the average area is 0.05 ha and the price fields are 0
C21_Witness ==
    /\ op = "calculate_stats"
    /\ Len(records) = 2
    /\ records[1].powierzchnia_ogolna = None
    /\ records[2].powierzchnia_ogolna = Some(5)
    /\ records[1].cena_wywolawcza = None
    /\ records[2].cena_wywolawcza = None
    /\ stats.avg_area = <<1, 20>>
    /\ stats.avg_price = <<0, 1>>
    /\ stats.min_price = 0

-----------------------------------------------------------------------------
(* The failure of a batch *)

\* whether the file cannot be opened or has a page that cannot be read
ExtractionFails(file) ==
    ~file.opens \/ \E k \in 1..Len(file.pages) : file.pages[k].raises

\* C22: when the table extraction raises inside extract_data_from_pdf, the
\* caller gets one ValueError and no record list, not even the records of the
\* pages read before the failure; when it does not raise, no exception
\* reaches the caller (neither the filtering of the aggregate rows nor the
\* processing of a row raises on rows of optional text cells)
C22_BatchFailsAsAWhole ==
    op = "extract_data_from_pdf_file" =>
        IF ExtractionFails(pdf)
        THEN raised = "ValueError" /\ processed_data = <<>>
        ELSE raised = ""

\* a file whose first page holds a row that makes a record and whose second
\* page cannot be read: ValueError and no record
C22_Witness ==
    /\ op = "extract_data_from_pdf_file"
    /\ pdf.opens
    /\ Len(pdf.pages) = 2
    /\ pdf.pages[1] = [raises |-> FALSE, table |-> Some(<<BaseRow>>)]
    /\ pdf.pages[2].raises
    /\ raised = "ValueError"
    /\ processed_data = <<>>

-----------------------------------------------------------------------------
(* Malformed rows *)

\* the field names of a record
RecordKeys ==
    {"lp", "data_godzina", "miejsce", "polozenie", "forma", "rodzaj_przetargu",
     "typ_nieruchomosci", "charakter_nieruchomosci", "atrybuty", "obnizka",
     "powierzchnia_ogolna", "powierzchnia_ur", "cena_wywolawcza",
     "kolejny_przetarg", "uwagi"}

\* the positions of the rows that make a record when processed on their own
WellFormed(rows) == {j \in 1..Len(rows) : Survives(rows[j])}

\* C23: process_table_row gives a record or nothing for every row of optional
\* cells and raises nothing, and the batch processor raises nothing either:
\* whatever malformed rows the table holds, the record of every other row is
\* in the list it returns, and the list holds nothing else
C23_MalformedRowsAreDropped ==
    /\ op = "process_table_row" =>
           /\ raised = ""
           /\ result = None \/ (Len(result) = 1 /\ DOMAIN Val(result) = RecordKeys)
    /\ op = "extract_data_from_tables" =>
           /\ raised = ""
           /\ Len(processed_data) = Cardinality(WellFormed(table_data))
           /\ \A j \in WellFormed(table_data) :
                  \E i \in 1..Len(processed_data) :
                      /\ processed_data[i].lp = safe_int(table_data[j][1], None)
                      /\ processed_data[i].data_godzina = table_data[j][3]
                      /\ processed_data[i].uwagi
                             = IF Len(table_data[j]) > 13 THEN table_data[j][14] ELSE None

\* a table whose first row has no sequence number and whose second row is
\* well formed: the record of the second row is returned
C23_Witness ==
    /\ op = "extract_data_from_tables"
    /\ table_data = <<[BaseRow EXCEPT ![1] = Some(<<"a", "b", "c">>)], BaseRow>>
    /\ raised = ""
    /\ Len(processed_data) = 1
    /\ processed_data[1].lp = Some(1)

-----------------------------------------------------------------------------
(* The arguments of filter_records after the call *)

\* C24 as stated: after any call of filter_records the caller's filters dict
\* holds the keys and values it held before the call, also when
\* best_offers_only is set (the record list is never assigned to by the call)
C24_AsStated == op = "filter_records" => filters = filters_arg

-----------------------------------------------------------------------------
(* The numeric fields of a built record *)

\* whether the cell is absent or holds no numeric literal once "," is read
\* as "." and every character other than digits, "." and "-" is dropped
IsUnparsable(cell) ==
    \/ cell = None
    \/ Remainder(Val(cell)) = <<>>
    \/ ~IsNumericLiteral(Remainder(Val(cell)))

\* a numeric field is absent or a non-negative number, and absent when its
\* cell is unparsable or empty
IsWellFormedNumber(field, cell) ==
    /\ field = None \/ Val(field)[1] >= 0
    /\ IsUnparsable(cell) => field = None

\* C25 as stated: in every record the record builder produces, the total area,
\* the arable area and the starting price are each absent or a non-negative
\* number, and absent when the cell is unparsable or empty
C25_AsStated ==
    (op = "process_table_row" /\ result # None) =>
        /\ IsWellFormedNumber(Val(result).powierzchnia_ogolna, table_data[1][10])
        /\ IsWellFormedNumber(Val(result).powierzchnia_ur, table_data[1][11])
        /\ IsWellFormedNumber(Val(result).cena_wywolawcza, table_data[1][12])

-----------------------------------------------------------------------------
(* The area stage of filter_records *)

\* whether the total area of the record is present and within the range
InAreaRange(r, min_area, max_area) ==
    /\ r.powierzchnia_ogolna # None
    /\ Val(r.powierzchnia_ogolna) >= min_area
    /\ max_area # None => Val(r.powierzchnia_ogolna) <= Val(max_area)

\* the records with their total area taken away
WithoutArea(recs) ==
    [i \in 1..Len(recs) |-> [recs[i] EXCEPT !.powierzchnia_ogolna = None]]

\* C26: in filter_records the area stage runs only when min_area is supplied
\* (by the caller or by the preset): it then keeps, of the records the form
\* stage left, exactly those whose total area is present, at least min_area
\* and, when max_area is given, at most max_area; without min_area the stage
\* keeps every record and the total areas have no influence on the result,
\* max_area or not
C26_AreaStage ==
    (op = "filter_records" /\ records # <<>>) =>
        IF filters.min_area # None
        THEN /\ after_area(records, filters)
                    = SelectSeq(after_form(records, filters),
                                LAMBDA r : InAreaRange(r, Val(filters.min_area),
                                                       filters.max_area))
             /\ \A i \in 1..Len(filtered_records) :
                    InAreaRange(filtered_records[i], Val(filters.min_area),
                                filters.max_area)
        ELSE /\ after_area(records, filters) = after_form(records, filters)
             /\ filter_records(WithoutArea(records), filters_arg, current_date)
                    = WithoutArea(filtered_records)

\* a call with max_area = 0.08 ha and no min_area that returns a record of 0.1 ha
C26_Witness ==
    /\ op = "filter_records"
    /\ filters_arg.min_area = None
    /\ filters_arg.max_area = Some(8)
    /\ filters_arg.best_offers_only = None
    /\ Len(records) = 2
    /\ records[1].powierzchnia_ogolna = None
    /\ filtered_records = <<records[1], records[2]>>
    /\ filtered_records[2].powierzchnia_ogolna = Some(10)

-----------------------------------------------------------------------------
(* get_best_offers and the chain of filtruj_wszystko.py *)

\* C27: for every record list and the same time of the call, get_best_offers
\* returns the sequence of records that main() of filtruj_wszystko.py ends
\* with, and the other way round
C27_BestOffersAsTheLegacyChain ==
    /\ op = "get_best_offers" =>
           filtered_records = aktualne_przetargi(records, current_date)
    /\ op = "filtruj_wszystko" =>
           filtered_records = get_best_offers(records, current_date)

\* get_best_offers on record B, which is too small, and record A: record A
\* alone is returned, as by the chain
C27_Witness ==
    /\ op = "get_best_offers"
    /\ Len(records) = 2
    /\ records[1] = RecordB
    /\ records[2] = RecordA
    /\ filtered_records = <<RecordA>>
    /\ aktualne_przetargi(records, current_date) = <<RecordA>>

-----------------------------------------------------------------------------
(* The region of a location string, for the filters and for the automation *)

\* C28: for every location string, filter_logic.get_powiat,
\* selenium_runner.get_powiat_from_polozenie and the 'powiat' entry of
\* selenium_runner.parse_dzialka_info give the same region, or none of them
\* gives one
C28_OneRegionContract ==
    op \in {"get_powiat", "get_powiat_from_polozenie", "parse_dzialka_info"} =>
        /\ get_powiat_from_polozenie(text) = get_powiat(text)
        /\ parse_dzialka_info(text).powiat = get_powiat(text)
        /\ result = get_powiat(text)

\* parse_dzialka_info on a string in which the region name is not at the
\* start: the region that follows it is the 'powiat' entry
C28_Witness ==
    /\ op = "parse_dzialka_info"
    /\ text = Some(<<"w", "o", "j", ".", " ">> \o Podkarpackie
                   \o <<"r", "z", "e", "s", "z", "o", "w", "s", "k", "i">>)
    /\ result = Some(<<"r", "z", "e", "s", "z", "o", "w", "s", "k", "i">>)

-----------------------------------------------------------------------------
(* Claims about concurrent requests, checked under SpecRequests *)

\* what the request of caller c returns when no other request runs: the
\* records filter_records keeps of its own file under its own query
AloneFiltered(c) ==
    filtered_data_of(requests[c].contents, requests[c].query, requests[c].now[1])

\* C29: when two callers run the pipeline (extraction, filter_records,
\* calculate_stats) at the same time on their own batches, then under every
\* interleaving of their steps each caller obtains what it would obtain had its
\* request run alone: the records of its own file, filtered under its own
\* query, and the statistics of those records.
C29_ConcurrentCallersAreIndependent ==
    \A c \in Callers :
        /\ requests[c].pc \in {"extracted", "filtered", "responded"}
                => requests[c].processed_data = requests[c].contents
        /\ requests[c].pc \in {"filtered", "responded"}
                => requests[c].filtered_data = AloneFiltered(c)
        /\ requests[c].pc = "responded"
                => requests[c].stats = calculate_stats(AloneFiltered(c))

\* both requests are in progress: caller 1 has filtered <<A, B>> with the
\* preset and kept A only, and has not responded yet, while caller 2 has
\* already responded with both records of another file, which no filter cut
C29_Witness ==
    /\ requests[1].pc = "filtered"
    /\ requests[1].contents = <<RecordA, RecordB>>
    /\ requests[1].query = [NoFilters EXCEPT !.best_offers_only = Some(TRUE)]
    /\ requests[1].filtered_data = <<RecordA>>
    /\ requests[2].pc = "responded"
    /\ requests[2].query = NoFilters
    /\ Len(requests[2].filtered_data) = 2
    /\ requests[2].contents # requests[1].contents
    /\ requests[2].stats.count = 2

-----------------------------------------------------------------------------
(* Claims about the discount threshold on built records, checked under       *)
(* SpecBuiltRecords                                                          *)

\* the text is empty or "obnizka N%" in its canonical spelling, N a run of digits
IsCanonicalDiscount(s) ==
    \/ s = <<>>
    \/ /\ Len(s) >= Len(Obnizka) + 3
       /\ SubSeq(s, 1, Len(Obnizka) + 1) = Obnizka \o <<" ">>
       /\ s[Len(s)] = "%"
       /\ \A k \in (Len(Obnizka) + 2)..(Len(s) - 1) : s[k] \in DigitChars

\* the filters of the call with min_discount left out
WithoutMinDiscount == [filters_arg EXCEPT !.min_discount = None]

\* C30: a discount threshold of 0 excludes nothing from a built collection.
\* Every record the record builder produced has a discount text that is empty
\* or the canonical "obnizka N%"; filter_by_discount with the threshold 0
\* keeps every such record, and filter_records with min_discount = 0 returns
\* what it returns with min_discount not supplied.
C30_ZeroThresholdExcludesNothing ==
    op = "filter_built_records" =>
        /\ \A i \in 1..Len(processed_data) : IsCanonicalDiscount(processed_data[i].obnizka)
        /\ filters_arg.min_discount = Some(0) =>
              /\ filter_by_discount(records, Some(0)) = records
              /\ filtered_records = filter_records(records, WithoutMinDiscount, current_date)
              /\ filters_arg.location = None => filtered_records = records

\* two rows were built into a record with no discount text and a record with
\* "obnizka 0%", and filter_records with min_discount = 0 alone returned both
C30_Witness ==
    /\ op = "filter_built_records"
    /\ filters_arg = [NoFilters EXCEPT !.min_discount = Some(0)]
    /\ Len(processed_data) = 2
    /\ processed_data[1].obnizka = <<>>
    /\ processed_data[2].obnizka = Obnizka \o <<" ", "0", "%">>
    /\ filtered_records = records
    /\ Len(filtered_records) = 2
====
